---- MODULE Spec2Model ----
(***************************************************************************)
(* repo-map: the graph builder (buildGraph, processDirectory, processFile, *)
(* ensureFolderNode, addUniqueEdge), the code parser (parseFile,           *)
(* shouldIgnoreFunctionCall) and the repository scanner (scanDirectory),   *)
(* modelled as one state machine over a small file tree.                   *)
(*                                                                         *)
(* Paths are sequences of path components: <<>> is ".", <<"src","b.ts">>   *)
(* is "src/b.ts".  A node id is the md5 digest of "<repoId>:<nodePath>";   *)
(* the digest is modelled as injective, so an id is the pair of the repoId *)
(* and the structure of the nodePath string (its literal prefix, the path, *)
(* the tag name and the line).                                             *)
(***************************************************************************)
EXTENDS Naturals, Integers, Sequences, FiniteSets, TLC

VARIABLES
  tree,            \* the repository on disk: file path -> name of its content
  files,           \* buildGraph's argument: the list the scanner produced
  pc,              \* where buildGraph is
  graph,           \* GraphData: [nodes, edges]
  definitions,     \* Map<string, Tag>
  references,      \* Tag[]
  stack,           \* the processDirectory calls in progress
  fileIdx,         \* position of the fallback loop in files
  refIdx,          \* position of the resolver loop in references
  counters,        \* resolvedCount, missingDefinitions, missingNodes
  resolvedRefs,    \* Set<string> of reference keys already linked
  error,           \* what rejected buildGraph's promise, "none" if nothing
  parsed,          \* history: parseFile calls so far, [file, outcome, by]
  ensured,         \* history: the folder paths buildGraph passed to ensureFolderNode
  IMPORT_RESOLVER, \* module-level map of the parser
  FILE_REFERENCES, \* module-level map of the parser
  lastAdd,         \* history: the last direct addUniqueEdge call (SpecEdges)
  defLog,          \* history: the definition tags processed so far, in order
  lookups,         \* history: number of definitions.get calls so far
  run,             \* which call of buildGraph in this process this is
  firstRun,        \* what the first call of buildGraph produced
  order,           \* the order in which readdirSync lists names in this call
  denied,          \* the directories fs.readdir fails on: path -> error code
  svc,             \* a Neo4jService: its driver field and the sessions it opened
  reply,           \* how the last call on the service or of createRepoMap settled
  sent,            \* the session.run calls storeGraph issued, in order
  input,           \* the arguments of the call under study
  heap,            \* the arrays of the JS heap: address -> content
  held,            \* the addresses of the arrays a caller of the view holds
  thrown           \* the error the last call on the view raised, "none" if none

vars == <<tree, files, pc, graph, definitions, references, stack, fileIdx,
          refIdx, counters, resolvedRefs, error, parsed, ensured,
          IMPORT_RESOLVER, FILE_REFERENCES, lastAdd, defLog, lookups, run,
          firstRun, order, heap, held, thrown, denied, svc, reply, sent,
          input>>

runVars == <<run, firstRun, order>>

extVars == <<denied, svc, reply, sent, input>>

viewVars == <<heap, held, thrown>>

----------------------------------------------------------------------------
(* Bounds *)

\* at most this many entries (files, dangling links) are present in the tree
MaxFiles == 2

\* at most this many directories are unreadable in SpecScan
MaxDenied == 1

\* at most this many calls on the service in SpecService
MaxCalls == 4

\* graphs of SpecStore fill at most this many batches of nodes or of edges
MaxBatches == 2

\* at most this many edges in the edge list of SpecEdges
MaxEdges == 3

\* at most this many arrays are handed out by the view in SpecView
MaxArrays == 2

\* a caller grows an array it was handed to at most this length
MaxArrayLen == 3

----------------------------------------------------------------------------
(* Paths (node's path module, on relative paths below the repository) *)

Dot == <<>>

LocalPath == "/repo"

RepoId == "repo-1"

OtherRepoId == "repo-2"

Dirname(p) == IF Len(p) <= 1 THEN Dot ELSE SubSeq(p, 1, Len(p) - 1)

Basename(p) == IF p = Dot THEN "." ELSE p[Len(p)]

\* path.join(repoInfo.localPath, rel): the absolute path of a relative one
AbsPath(p) == <<LocalPath>> \o p

IsPrefix(p, q) == Len(p) <= Len(q) /\ SubSeq(q, 1, Len(p)) = p

\* path.extname(name).toLowerCase(), on the names of the modelled tree
ExtName(name) ==
  CASE name \in {"a.ts", "b.ts", "c.ts", "d.ts", "e.ts", "util.ts"} -> ".ts"
    [] name = "m.js" -> ".js"
    [] name = "README.md" -> ".md"
    [] name = "logo.png" -> ".png"
    [] OTHER -> ""

\* entry.startsWith('.')
StartsWithDot(name) == name \in {".cfg", ".git"}

----------------------------------------------------------------------------
(* Node ids *)

NodePath(pre, path, name, line) ==
  [pre |-> pre, path |-> path, name |-> name, line |-> line]

generateNodeId(repoId, nodePath) == [repoId |-> repoId, nodePath |-> nodePath]

\* 'repo:root'
RepoRootPath == NodePath("repo:root", Dot, "", 0)

\* `folder:${relativePath}`
FolderPath(p) == NodePath("folder:", p, "", 0)

\* `file:${relativePath}`
FilePath(p) == NodePath("file:", p, "", 0)

\* `${filePath}:${tag.name}:${tag.startLine}` with the absolute filePath
DefInsertPath(absPath, name, line) == NodePath("", absPath, name, line)

\* `ref:${ref.filePath}:${ref.name}:${ref.startLine}`
RefPath(relPath, name, line) == NodePath("ref:", relPath, name, line)

\* `def:${def.filePath}:${def.name}:${def.startLine}`
DefLookupPath(relPath, name, line) == NodePath("def:", relPath, name, line)

rootNodeId == generateNodeId(RepoId, RepoRootPath)

----------------------------------------------------------------------------
(* The node store (a Map in insertion order) and the edge list *)

MapHas(nodes, id) == \E i \in 1..Len(nodes) : nodes[i].key = id

\* a store that appends an entry on every set, also under a key it holds
MapSetAlwaysAppends(nodes, id, data) ==
  Append(nodes, [key |-> id, value |-> data])

MapSet(nodes, id, data) ==
  IF MapHas(nodes, id)
  THEN [i \in 1..Len(nodes) |->
          IF nodes[i].key = id THEN [key |-> id, value |-> data] ELSE nodes[i]]
  ELSE Append(nodes, [key |-> id, value |-> data])

MapGet(nodes, id) ==
  nodes[CHOOSE i \in 1..Len(nodes) : nodes[i].key = id].value

Undefined == "undefined"

Edge(s, t, type, repoId) ==
  [sourceId |-> s, targetId |-> t, type |-> type, repoId |-> repoId]

\* edgeExists that compares with a type no edge is stored under
edgeExistsWrongType(edges, sourceId, targetId, type, repoId) ==
  \E i \in 1..Len(edges) :
    /\ edges[i].sourceId = sourceId
    /\ edges[i].targetId = targetId
    /\ edges[i].type = "contains"
    /\ (edges[i].repoId = repoId \/ edges[i].repoId = Undefined)

edgeExists(edges, sourceId, targetId, type, repoId) ==
  \E i \in 1..Len(edges) :
    /\ edges[i].sourceId = sourceId
    /\ edges[i].targetId = targetId
    /\ edges[i].type = type
    /\ (edges[i].repoId = repoId \/ edges[i].repoId = Undefined)

\* addUniqueEdge without the reverse check
addUniqueEdgeNoReverse(edges, sourceId, targetId, type, repoId) ==
  LET exactMatch == \E i \in 1..Len(edges) :
                      edges[i] = Edge(sourceId, targetId, type, repoId)
  IN IF exactMatch THEN [edges |-> edges, ret |-> FALSE]
     ELSE [edges |-> Append(edges, Edge(sourceId, targetId, type, repoId)),
           ret |-> TRUE]

addUniqueEdge(edges, sourceId, targetId, type, repoId) ==
  LET exactMatch == \E i \in 1..Len(edges) :
                      /\ edges[i].sourceId = sourceId
                      /\ edges[i].targetId = targetId
                      /\ edges[i].type = type
                      /\ edges[i].repoId = repoId
      reverseExists == \E i \in 1..Len(edges) :
                      /\ edges[i].sourceId = targetId
                      /\ edges[i].targetId = sourceId
                      /\ edges[i].type = type
                      /\ edges[i].repoId = repoId
  IN IF exactMatch THEN [edges |-> edges, ret |-> FALSE]
     ELSE IF type = "CONTAINS" /\ reverseExists
          THEN [edges |-> edges, ret |-> FALSE]
          ELSE [edges |-> Append(edges, Edge(sourceId, targetId, type, repoId)),
                ret |-> TRUE]

FolderNode(nodeId, folderPath) ==
  [nodeId |-> nodeId, repoId |-> RepoId, name |-> Basename(folderPath),
   type |-> "FOLDER", filePath |-> folderPath, startLine |-> 0,
   isDirectory |-> TRUE, isReference |-> FALSE]

FileNode(nodeId, relativePath) ==
  [nodeId |-> nodeId, repoId |-> RepoId, name |-> Basename(relativePath),
   type |-> "FILE", filePath |-> relativePath, startLine |-> 0,
   isDirectory |-> FALSE, isReference |-> FALSE]

RepositoryNode(nodeId) ==
  [nodeId |-> nodeId, repoId |-> RepoId, name |-> "repo",
   type |-> "REPOSITORY", filePath |-> Dot, startLine |-> 0,
   isDirectory |-> TRUE, isReference |-> FALSE]

\* ensureFolderNode that neither looks for the node nor for the edge
RECURSIVE ensureFolderNodeBlind(_, _)
ensureFolderNodeBlind(g, folderPath) ==
  IF folderPath = Dot
  THEN [graph |-> g, id |-> rootNodeId]
  ELSE LET nodeId == generateNodeId(RepoId, FolderPath(folderPath))
           g1 == [g EXCEPT !.nodes = MapSet(@, nodeId, FolderNode(nodeId, folderPath))]
           parent == ensureFolderNodeBlind(g1, Dirname(folderPath))
       IN [graph |-> [parent.graph EXCEPT !.edges =
                        Append(@, Edge(parent.id, nodeId, "CONTAINS", RepoId))],
           id |-> nodeId]

RECURSIVE ensureFolderNode(_, _)
ensureFolderNode(g, folderPath) ==
  IF folderPath = Dot
  THEN [graph |-> g, id |-> generateNodeId(RepoId, RepoRootPath)]
  ELSE LET nodeId == generateNodeId(RepoId, FolderPath(folderPath)) IN
       IF MapHas(g.nodes, nodeId)
       THEN [graph |-> g, id |-> nodeId]
       ELSE LET g1 == [g EXCEPT !.nodes =
                         MapSet(@, nodeId, FolderNode(nodeId, folderPath))]
                parent == ensureFolderNode(g1, Dirname(folderPath))
                added == addUniqueEdge(parent.graph.edges, parent.id, nodeId,
                                       "CONTAINS", RepoId)
                g2 == [parent.graph EXCEPT !.edges = added.edges]
                g3 == IF ~MapHas(g2.nodes, nodeId)
                      THEN [g2 EXCEPT !.nodes =
                              MapSet(@, nodeId, FolderNode(nodeId, folderPath))]
                      ELSE g2
            IN [graph |-> g3, id |-> nodeId]

----------------------------------------------------------------------------
(* File contents: the syntax tree of a file as the sequence of the nodes    *)
(* the traversal enters and of the class declarations it leaves             *)

Null == "null"

Ev(k, name, obj, line) ==
  [k |-> k, name |-> name, obj |-> obj, line |-> line, static |-> FALSE,
   source |-> "", imported |-> ""]

\* function name() {}
FuncDecl(name, line) == Ev("FunctionDeclaration", name, "", line)

\* class name {   and the matching   }
ClassEnter(name, line) == Ev("ClassDeclaration", name, "", line)

ClassExit == Ev("exit:ClassDeclaration", "", "", 0)

\* name() {} and static name() {} in a class body
Method(name, isStatic, line) ==
  [Ev("ClassMethod", name, "", line) EXCEPT !.static = isStatic]

\* #name() {} in a class body
PrivMethod(name, line) == Ev("ClassPrivateMethod", name, "", line)

\* name(...)
CallId(name, line) == Ev("Call:Identifier", name, "", line)

\* obj.name(...) with obj an identifier
CallMember(obj, name, line) == Ev("Call:Member", name, obj, line)

\* this.x.name(...), a.b.name(...): the callee's object is no identifier
CallDeep(name, line) == Ev("Call:DeepMember", name, "", line)

\* new name(...)
NewExpr(name, line) == Ev("NewExpression", name, "", line)

\* import { imported as local } from 'source'
ImportDecl(source, local, imported, line) ==
  [Ev("ImportDeclaration", local, "", line) EXCEPT
     !.source = source, !.imported = imported]

\* export before a declaration: the ExportNamedDeclaration node around it
ExportDecl(name, line) == Ev("ExportNamedDeclaration", name, "", line)

IsCall(e) == e.k \in {"Call:Identifier", "Call:Member", "Call:DeepMember"}

Text(ok, size, events) == [parses |-> ok, size |-> size, events |-> events]

ContentNames ==
  {"defHelper", "callHelper", "scenario1", "builtins", "classA",
   "syntaxError", "empty", "text", "dangling", "ctor", "nested", "classFoo",
   "exportHelper", "importHelper"}

Content(c) ==
  CASE c = "defHelper" -> Text(TRUE, 1, <<FuncDecl("helper", 1)>>)
    [] c = "callHelper" -> Text(TRUE, 1, <<CallId("helper", 1)>>)
    [] c = "scenario1" ->
         Text(TRUE, 3, <<FuncDecl("foo", 1), CallMember("console", "log", 2),
                         CallId("bar", 3)>>)
    [] c = "builtins" ->
         Text(TRUE, 3, <<CallMember("items", "push", 1), CallDeep("map", 2),
                         CallMember("p", "then", 3)>>)
    [] c = "classA" ->
         Text(TRUE, 1, <<ClassEnter("A", 1), Method("A", FALSE, 1), ClassExit>>)
    [] c = "ctor" ->
         Text(TRUE, 3, <<NewExpr("Map", 1), NewExpr("Error", 2),
                         NewExpr("Widget", 3)>>)
    [] c = "nested" ->
         Text(TRUE, 8, <<ClassEnter("Outer", 1), Method("first", FALSE, 2),
                         ClassEnter("Inner", 3), ClassExit,
                         Method("second", FALSE, 5), Method("make", TRUE, 6),
                         PrivMethod("hidden", 7), ClassExit>>)
    [] c = "classFoo" ->
         Text(TRUE, 4, <<ClassEnter("Foo", 1), PrivMethod("secret", 2),
                         Method("create", TRUE, 3), ClassExit>>)
    [] c = "exportHelper" ->
         Text(TRUE, 1, <<ExportDecl("helper", 1), FuncDecl("helper", 1)>>)
    [] c = "importHelper" ->
         Text(TRUE, 2, <<ImportDecl("../a", "helper", "helper", 1),
                         CallId("helper", 2)>>)
    [] c = "syntaxError" -> Text(FALSE, 1, <<>>)
    [] c = "empty" -> Text(TRUE, 0, <<>>)
    [] c = "text" -> Text(FALSE, 1, <<>>)
    [] OTHER -> Text(FALSE, 0, <<>>)

----------------------------------------------------------------------------
(* The code parser *)

browserGlobals == {"console", "window", "document", "fetch", "setTimeout"}

nodeGlobals == {"console", "process", "Buffer", "setTimeout"}

esGlobals == {"Map", "Promise", "Date", "Error", "Array", "JSON", "Math"}

allGlobals == browserGlobals \cup nodeGlobals \cup esGlobals

\* the function-valued own properties of the built-in prototypes
getBuiltinPrototypeMethods ==
  {"push", "map", "then", "forEach", "toString", "slice"}

\* DEFINED_SYMBOLS as it would be if the parser recorded its definitions
DEFINED_SYMBOLS_Recorded ==
  [n \in {"helper"} |-> [file |-> <<"a.ts">>, line |-> 1]]

\* never written by the module: both stay empty
DEFINED_SYMBOLS == [n \in {} |-> [file |-> Dot, line |-> 0]]

EXPORT_MAP == [s \in {} |-> {}]

SourceExtensions == {".js", ".ts", ".tsx", ".jsx"}

shouldIgnoreFunctionCall(e) ==
  IF e.k = "NewExpression" /\ e.name = "Error" THEN TRUE
  ELSE IF e.k = "Call:Member"
       THEN e.obj \in allGlobals \/ e.name \in allGlobals
       ELSE IF e.k = "Call:Identifier"
            THEN e.name \in allGlobals
            ELSE FALSE

getFunctionName(e) ==
  IF IsCall(e) /\ ~shouldIgnoreFunctionCall(e) THEN e.name ELSE ""

getObjectName(e) == IF e.k = "Call:Member" THEN e.obj ELSE ""

NoParent == [name |-> "", type |-> "", startLine |-> 0]

Tag(name, type, kind, relPath, targetFile, line, parent) ==
  [name |-> name, type |-> type, kind |-> kind, filePath |-> relPath,
   targetFile |-> targetFile, startLine |-> line, parent |-> parent]

NoTarget == <<"">>

\* the second reference tag of a call expression ("Handle import resolution")
ImportResolution(e, relPath, ir, fr) ==
  IF e.k = "Call:Identifier"
  THEN LET viaImport == e.name \in DOMAIN ir
           known == viaImport \/ e.name \in DOMAIN DEFINED_SYMBOLS
           targetFile == IF viaImport THEN <<ir[e.name].source>>
                         ELSE DEFINED_SYMBOLS[e.name].file
           key == <<relPath, targetFile, "">>
       IN IF known /\ key \notin fr
          THEN [tags |-> <<Tag(e.name, "functionCall", "ref", relPath,
                               targetFile, e.line, NoParent)>>,
                fr |-> fr \cup {key}]
          ELSE [tags |-> <<>>, fr |-> fr]
  ELSE LET objectName == getObjectName(e)
           known == objectName \in DOMAIN DEFINED_SYMBOLS
           targetFile == DEFINED_SYMBOLS[objectName].file
           key == <<relPath, targetFile, objectName \o "." \o e.name>>
       IN IF known /\ key \notin fr
          THEN [tags |-> <<Tag(objectName \o "." \o e.name, "methodCall",
                               "ref", relPath, targetFile, e.line, NoParent)>>,
                fr |-> fr \cup {key}]
          ELSE [tags |-> <<>>, fr |-> fr]

\* one visit of the traversal: enter(path) for a node, exit(path) for a class
Visit(st, e, relPath) ==
  CASE e.k = "ImportDeclaration" ->
         IF e.source \in DOMAIN EXPORT_MAP
            /\ e.imported \in EXPORT_MAP[e.source]
         THEN [st EXCEPT !.ir = [n \in DOMAIN @ \cup {e.name} |->
                 IF n = e.name
                 THEN [source |-> e.source, exported |-> e.imported]
                 ELSE @[n]]]
         ELSE st
    [] e.k = "ClassDeclaration" ->
         [st EXCEPT !.currentClass = e.name,
                    !.tags = Append(@, Tag(e.name, "class", "def", relPath,
                                           NoTarget, e.line, NoParent))]
    [] e.k = "FunctionDeclaration" ->
         [st EXCEPT !.tags = Append(@, Tag(e.name, "function", "def", relPath,
                                           NoTarget, e.line, NoParent))]
    [] e.k = "ClassMethod" ->
         [st EXCEPT !.tags = Append(@,
            Tag(IF e.static THEN st.currentClass \o "." \o e.name ELSE e.name,
                IF e.static THEN "staticMethod" ELSE "method", "def", relPath,
                NoTarget, e.line,
                [name |-> st.currentClass, type |-> "class",
                 startLine |-> e.line]))]
    [] e.k = "ClassPrivateMethod" ->
         [st EXCEPT !.tags = Append(@,
            Tag("#" \o e.name, "privateMethod", "def", relPath, NoTarget,
                e.line,
                [name |-> st.currentClass, type |-> "class",
                 startLine |-> e.line]))]
    [] IsCall(e) ->
         IF shouldIgnoreFunctionCall(e) THEN st
         ELSE LET inClass == st.currentClass # Null
                  tag == Tag(getFunctionName(e), "functionCall", "ref",
                             relPath, NoTarget, e.line,
                             [name |-> IF inClass
                                       THEN st.currentClass \o "." \o st.currentClass
                                       ELSE "global",
                              type |-> IF inClass THEN "method" ELSE "function",
                              startLine |-> e.line])
                  more == ImportResolution(e, relPath, st.ir, st.fr)
              IN [st EXCEPT !.tags = Append(@, tag) \o more.tags,
                            !.fr = more.fr]
    [] e.k = "NewExpression" ->
         IF shouldIgnoreFunctionCall(e) THEN st
         ELSE [st EXCEPT !.tags = Append(@, Tag(e.name, "constructorCall",
                                  "ref", relPath, NoTarget, e.line, NoParent))]
    [] e.k = "exit:ClassDeclaration" -> [st EXCEPT !.currentClass = Null]
    [] OTHER -> st

RECURSIVE Traverse(_, _, _)
Traverse(st, events, relPath) ==
  IF events = <<>> THEN st
  ELSE Traverse(Visit(st, Head(events), relPath), Tail(events), relPath)

\* parseFile(filePath, repoRoot): how its promise settles, and with what
parseFile(relPath, text, ir, fr) ==
  IF ExtName(Basename(relPath)) \in SourceExtensions
  THEN IF ~text.parses
       THEN [outcome |-> "rejected", tags |-> <<>>, ir |-> ir, fr |-> fr]
       ELSE LET st == Traverse([currentClass |-> Null, tags |-> <<>>,
                                ir |-> ir, fr |-> fr], text.events, relPath)
            IN [outcome |-> "resolved", tags |-> st.tags, ir |-> st.ir,
                fr |-> st.fr]
  ELSE [outcome |-> "pending", tags |-> <<>>, ir |-> ir, fr |-> fr]

----------------------------------------------------------------------------
(* The repository on disk *)

A_TS == <<"a.ts">>
B_TS == <<"src", "b.ts">>
LINK == <<"src", "ln">>
UTIL_TS == <<"src", "lib", "util.ts">>
README == <<"src", "README.md">>
C_TS == <<".cfg", "c.ts">>
E_TS == <<".cfg", "sub", "e.ts">>
M_JS == <<"node_modules", "m.js">>
D_TS == <<"dist", "d.ts">>

CandidateFiles == {A_TS, B_TS, LINK, UTIL_TS, README, C_TS, E_TS, M_JS, D_TS}

SourceContents ==
  {"defHelper", "callHelper", "scenario1", "builtins", "classA",
   "syntaxError", "empty"}

\* what a path of the tree may hold
Allowed(f) ==
  CASE f = README -> {"text"}
    [] f = LINK -> {"dangling"}
    [] f = M_JS -> {"defHelper"}
    [] f = D_TS -> {"defHelper"}
    [] f = A_TS -> SourceContents \cup {"ctor", "nested", "classFoo",
                                        "exportHelper"}
    [] f = B_TS -> SourceContents \cup {"importHelper"}
    [] OTHER -> SourceContents

Trees ==
  UNION {{t \in [S -> ContentNames] : \A f \in S : t[f] \in Allowed(f)} :
           S \in {S \in SUBSET CandidateFiles : Cardinality(S) <= MaxFiles}}

\* the order in which readdir lists the names of a directory
EntryOrder ==
  <<".cfg", "a.ts", "b.ts", "c.ts", "dist", "d.ts", "ln", "lib", "logo.png",
    "node_modules", "m.js", "README.md", "src", "sub", "e.ts", "util.ts">>

IsEntry(t, dirPath, name) ==
  \E f \in DOMAIN t : IsPrefix(Append(dirPath, name), f)

\* fs.readdirSync(dirPath) on a file system that lists names in order ord
readdirIn(ord, t, dirPath) ==
  SelectSeq(ord, LAMBDA name : IsEntry(t, dirPath, name))

readdir(t, dirPath) == readdirIn(EntryOrder, t, dirPath)

\* fs.statSync(p): throws on a dangling link
StatThrows(t, p) == p \in DOMAIN t /\ t[p] = "dangling"

IsDirectory(t, p) == \E f \in DOMAIN t : IsPrefix(p, f) /\ Len(f) > Len(p)

IsFile(t, p) == p \in DOMAIN t /\ t[p] # "dangling"

FileSize(t, p) == Content(t[p]).size

----------------------------------------------------------------------------
(* The repository scanner *)

DEFAULT_IGNORE_PATTERNS ==
  {"node_modules", ".git", ".svn", "dist", "build", "out", "vendor",
   "coverage", ".next", ".nuxt", ".cache", ".vscode", ".idea"}

TEXT_FILE_EXTENSIONS == {".ts", ".js", ".jsx", ".tsx", ".json", ".md", ".txt"}

isLikelyTextFile(t, p) ==
  IF ExtName(Basename(p)) \in TEXT_FILE_EXTENSIONS THEN TRUE
  ELSE t[p] # "binary"

RECURSIVE scanDirectory(_, _)
RECURSIVE ScanEntries(_, _, _)
ScanEntries(t, dirPath, entries) ==
  IF entries = <<>> THEN <<>>
  ELSE LET fullPath == Append(dirPath, Head(entries))
           here == IF Head(entries) \in DEFAULT_IGNORE_PATTERNS THEN <<>>
                   ELSE IF IsDirectory(t, fullPath)
                        THEN scanDirectory(t, fullPath)
                        ELSE IF IsFile(t, fullPath) /\ isLikelyTextFile(t, fullPath)
                             THEN <<fullPath>>
                             ELSE <<>>
       IN here \o ScanEntries(t, dirPath, Tail(entries))

scanDirectory(t, dirPath) == ScanEntries(t, dirPath, readdir(t, dirPath))

----------------------------------------------------------------------------
(* The graph builder: tags of one file into the graph *)

DefKey(tag) == <<tag.name, tag.type>>

DefinitionNode(nodeId, tag, relativePath) ==
  [nodeId |-> nodeId, repoId |-> RepoId, name |-> tag.name,
   type |-> tag.type, filePath |-> relativePath, startLine |-> tag.startLine,
   isDirectory |-> FALSE, isReference |-> FALSE]

ReferenceNode(nodeId, ref) ==
  [nodeId |-> nodeId, repoId |-> RepoId, name |-> ref.name,
   type |-> ref.type, filePath |-> ref.filePath, startLine |-> ref.startLine,
   isDirectory |-> FALSE, isReference |-> TRUE]

\* a map in which the first value stored under a key stays
MapPutFirst(m, k, v) ==
  [x \in DOMAIN m \cup {k} |-> IF x \in DOMAIN m THEN m[x] ELSE v]

MapPut(m, k, v) == [x \in DOMAIN m \cup {k} |-> IF x = k THEN v ELSE m[x]]

\* a loop body that links a reference as soon as its tag is met, instead of
\* buffering it for the resolver pass
ProcessTagEager(st, tag, fileNodeId, relativePath) ==
  IF tag.kind = "ref"
  THEN LET refNodeId == generateNodeId(RepoId,
                          RefPath(tag.filePath, tag.name, tag.startLine))
       IN [st EXCEPT !.graph.nodes = MapSet(@, refNodeId,
                                            ReferenceNode(refNodeId, tag)),
                     !.references = Append(@, tag)]
  ELSE st

\* the body of "for (const tag of tags)" for one tag
ProcessTag(st, tag, fileNodeId, relativePath) ==
  IF tag.kind = "def"
  THEN LET nodeId == generateNodeId(RepoId,
                       DefInsertPath(AbsPath(relativePath), tag.name, tag.startLine))
           nodes1 == MapSet(st.graph.nodes, nodeId,
                            DefinitionNode(nodeId, tag, relativePath))
           edges1 == IF ~edgeExists(st.graph.edges, fileNodeId, nodeId,
                                    "CONTAINS", RepoId)
                     THEN Append(st.graph.edges,
                                 Edge(fileNodeId, nodeId, "CONTAINS", RepoId))
                     ELSE st.graph.edges
       IN [st EXCEPT !.graph = [nodes |-> nodes1, edges |-> edges1],
                     !.definitions = MapPut(@, DefKey(tag), tag)]
  ELSE IF tag.kind = "ref"
       THEN [st EXCEPT !.references = Append(@, tag)]
       ELSE st

\* the definition tags among the tags of a file, in their order
DefTags(tags) == SelectSeq(tags, LAMBDA tag : tag.kind = "def")

RECURSIVE ProcessTags(_, _, _, _)
ProcessTags(st, tags, fileNodeId, relativePath) ==
  IF tags = <<>> THEN st
  ELSE ProcessTags(ProcessTag(st, Head(tags), fileNodeId, relativePath),
                   Tail(tags), fileNodeId, relativePath)

\* processFile(filePath, ..., parentNodeId, ...): the stores after the call
\* and how the await on parseFile settled (a rejection is caught and logged)
processFile(t, relativePath, parentNodeId, g, defs, refs, ir, fr) ==
  LET fileNodeId == generateNodeId(RepoId, FilePath(relativePath))
      g1 == IF ~MapHas(g.nodes, fileNodeId)
            THEN LET nodes1 == MapSet(g.nodes, fileNodeId,
                                      FileNode(fileNodeId, relativePath))
                 IN [nodes |-> nodes1,
                     edges |-> addUniqueEdge(g.edges, parentNodeId, fileNodeId,
                                             "CONTAINS", RepoId).edges]
            ELSE g
      p == parseFile(relativePath, Content(t[relativePath]), ir, fr)
      st == ProcessTags([graph |-> g1, definitions |-> defs, references |-> refs],
                        p.tags, fileNodeId, relativePath)
  IN [graph |-> st.graph, definitions |-> st.definitions,
      references |-> st.references, ir |-> p.ir, fr |-> p.fr,
      outcome |-> p.outcome, tags |-> p.tags]

\* the resolver of the first buildGraph: a REFERENCES edge to the definition
\* of that name, whatever its type, with no look at the node store
resolveReferenceUnchecked(ref, g, defs, c, resolved) ==
  LET matches == {k \in DOMAIN defs : k[1] = ref.name} IN
  IF matches = {}
  THEN [graph |-> g, resolvedRefs |-> resolved,
        counters |-> [c EXCEPT !.missingDefinitions = @ + 1]]
  ELSE LET def == defs[CHOOSE k \in matches : TRUE]
           refNodeId == generateNodeId(RepoId,
                          RefPath(ref.filePath, ref.name, ref.startLine))
           defNodeId == generateNodeId(RepoId,
                          DefLookupPath(def.filePath, def.name, def.startLine))
       IN [graph |-> [g EXCEPT !.edges =
                        addUniqueEdge(@, refNodeId, defNodeId, "REFERENCES",
                                      RepoId).edges],
           resolvedRefs |-> resolved,
           counters |-> [c EXCEPT !.resolvedCount = @ + 1]]

\* a resolver that creates the reference node before it looks the
\* definition up
resolveReferenceNodeFirst(ref, g, defs, c, resolved) ==
  LET refNodeId == generateNodeId(RepoId,
                     RefPath(ref.filePath, ref.name, ref.startLine))
  IN [graph |-> [g EXCEPT !.nodes = MapSet(@, refNodeId,
                                           ReferenceNode(refNodeId, ref))],
      resolvedRefs |-> resolved,
      counters |-> [c EXCEPT !.missingDefinitions = @ + 1]]

\* a resolver that counts a reference without definition as a missing node
\* as well
resolveReferenceCountsTwice(ref, g, defs, c, resolved) ==
  LET defKey == <<ref.name, ref.type>> IN
  IF defKey \notin DOMAIN defs
  THEN [graph |-> g, resolvedRefs |-> resolved,
        counters |-> [c EXCEPT !.missingDefinitions = @ + 1,
                               !.missingNodes = @ + 1]]
  ELSE [graph |-> g, resolvedRefs |-> resolved, counters |-> c]

\* one iteration of "for (const ref of references)"
resolveReference(ref, g, defs, c, resolved) ==
  LET defKey == <<ref.name, ref.type>> IN
  IF defKey \notin DOMAIN defs
  THEN [graph |-> g, resolvedRefs |-> resolved,
        counters |-> [c EXCEPT !.missingDefinitions = @ + 1]]
  ELSE
    LET def == defs[defKey]
        refNodeId == generateNodeId(RepoId,
                       RefPath(ref.filePath, ref.name, ref.startLine))
        defNodeId == generateNodeId(RepoId,
                       DefLookupPath(def.filePath, def.name, def.startLine))
        refFileNodeId == generateNodeId(RepoId, FilePath(ref.filePath))
        isNew == ~MapHas(g.nodes, refNodeId)
        nodes1 == IF isNew
                  THEN MapSet(g.nodes, refNodeId, ReferenceNode(refNodeId, ref))
                  ELSE g.nodes
        orphan == isNew /\ ~MapHas(nodes1, refFileNodeId)
        edges1 == IF isNew /\ ~orphan
                  THEN addUniqueEdge(g.edges, refFileNodeId, refNodeId,
                                     "CONTAINS", RepoId).edges
                  ELSE g.edges
        refKey == <<refNodeId, defNodeId, "REFERENCES">>
        added == addUniqueEdge(edges1, refNodeId, defNodeId, "REFERENCES", RepoId)
    IN IF orphan \/ ~MapHas(nodes1, defNodeId)
       THEN [graph |-> [nodes |-> nodes1, edges |-> edges1],
             resolvedRefs |-> resolved,
             counters |-> [c EXCEPT !.missingNodes = @ + 1]]
       ELSE IF refKey \notin resolved /\ added.ret
            THEN [graph |-> [nodes |-> nodes1, edges |-> added.edges],
                  resolvedRefs |-> resolved \cup {refKey},
                  counters |-> [c EXCEPT !.resolvedCount = @ + 1]]
            ELSE [graph |-> [nodes |-> nodes1, edges |-> edges1],
                  resolvedRefs |-> resolved, counters |-> c]

----------------------------------------------------------------------------
(* Neo4jService: the driver field, and what each method does to it.  The   *)
(* calls into neo4j-driver are the environment: neo4j.driver() may throw,  *)
(* verifyConnectivity() and session.run() may reject; driver.close() and   *)
(* session.close() are taken to resolve.                                   *)

\* private driver: Driver | null = null
NoService == [driver |-> "null", established |-> FALSE, sessions |-> 0]

NoReply == [op |-> "", outcome |-> ""]

NoInput == [kind |-> "none"]

ServiceIdle ==
  /\ svc = NoService
  /\ reply = NoReply
  /\ sent = <<>>
  /\ input = NoInput

ConnectOutcomes == {"ok", "driverThrows", "verifyFails"}

\* connect(): established records that a connect has succeeded since the
\* construction or the last close
connect(s, outcome) ==
  CASE outcome = "driverThrows" -> [svc |-> s, outcome |-> "ConnectError"]
    [] outcome = "verifyFails" ->
         [svc |-> [s EXCEPT !.driver = "set"], outcome |-> "ConnectError"]
    [] OTHER ->
         [svc |-> [s EXCEPT !.driver = "set", !.established = TRUE],
          outcome |-> "ok"]

\* close()
close(s) ==
  IF s.driver # "null"
  THEN [svc |-> [s EXCEPT !.driver = "null", !.established = FALSE],
        outcome |-> "ok"]
  ELSE [svc |-> s, outcome |-> "ok"]

\* ensureIndex, deleteRepoData, query, getNodeById: the guard, then one
\* session in which one statement runs; the finally closes the session
sessionOp(s, runOutcome) ==
  IF s.driver = "null"
  THEN [svc |-> s, outcome |-> "NotConnected"]
  ELSE [svc |-> [s EXCEPT !.sessions = @ + 1],
        outcome |-> IF runOutcome = "ok" THEN "ok" ELSE "QueryError"]

\* const batchSize = 1000
batchSize == 1000

Min(a, b) == IF a <= b THEN a ELSE b

\* slices that overlap the next one by an item
SlicesOverlapping(n) ==
  [j \in 1..((n + batchSize - 1) \div batchSize) |->
     [from |-> (j - 1) * batchSize + 1, to |-> Min(j * batchSize + 1, n)]]

\* for (let i = 0; i < n; i += batchSize) slice(i, i + batchSize): the
\* positions (from 1) of the items of each batch
Slices(n) ==
  [j \in 1..((n + batchSize - 1) \div batchSize) |->
     [from |-> (j - 1) * batchSize + 1, to |-> Min(j * batchSize, n)]]

\* the type of edge i of a graph whose edges follow the given pattern
EdgeTypeOf(pattern, i) ==
  IF pattern = "mixed" /\ i % 2 = 0 THEN "REFERENCES" ELSE "CONTAINS"

\* createRelationships: the keys of relationshipsByType in insertion order
TypesOf(pattern, b) ==
  LET first == EdgeTypeOf(pattern, b.from)
      others == {EdgeTypeOf(pattern, i) : i \in b.from..b.to} \ {first}
  IN IF others = {} THEN <<first>>
     ELSE <<first, CHOOSE t \in others : TRUE>>

\* createNodes(batch): one session.run
NodeRuns(b) == <<[kind |-> "nodes", from |-> b.from, to |-> b.to, type |-> ""]>>

\* createRelationships(batch): one session.run per relationship type
EdgeRuns(pattern, b) ==
  LET types == TypesOf(pattern, b)
  IN [k \in 1..Len(types) |->
        [kind |-> "edges", from |-> b.from, to |-> b.to, type |-> types[k]]]

RECURSIVE Flatten(_)
Flatten(ss) == IF ss = <<>> THEN <<>> ELSE Head(ss) \o Flatten(Tail(ss))

\* the session.run calls of a storeGraph that nothing interrupts
RunsOf(g) ==
  LET nb == Slices(g.nodes)
      eb == Slices(g.edges)
  IN Flatten([j \in 1..Len(nb) |-> NodeRuns(nb[j])])
       \o Flatten([j \in 1..Len(eb) |-> EdgeRuns(g.pattern, eb[j])])

\* storeGraph(graph, repoId): the session.run call number failAt rejects
\* (none if 0); runs holds the calls issued, the rejected one included
storeGraph(s, g, failAt) ==
  IF s.driver = "null"
  THEN [svc |-> s, outcome |-> "NotConnected", runs |-> <<>>]
  ELSE LET planned == RunsOf(g)
           fails == failAt \in 1..Len(planned)
           issued == IF fails THEN SubSeq(planned, 1, failAt) ELSE planned
           batches == {<<issued[k].kind, issued[k].from>> : k \in 1..Len(issued)}
       IN [svc |-> [s EXCEPT !.sessions = @ + 1 + Cardinality(batches)],
           outcome |-> IF fails THEN "StoreError" ELSE "ok",
           runs |-> [k \in 1..Len(issued) |->
                       [kind |-> issued[k].kind, from |-> issued[k].from,
                        to |-> issued[k].to, type |-> issued[k].type,
                        ok |-> ~(fails /\ k = failAt)]]]

----------------------------------------------------------------------------
(* buildGraph as a state machine *)

NoCounters == [resolvedCount |-> 0, missingDefinitions |-> 0, missingNodes |-> 0]

NoCall == [called |-> FALSE, before |-> <<>>, sourceId |-> rootNodeId,
           targetId |-> rootNodeId, type |-> "", repoId |-> "", ret |-> FALSE]

EmptyGraph == [nodes |-> <<>>, edges |-> <<>>]

\* no call on the view yet
NoThrow == [call |-> "", error |-> "none"]

\* no call of buildGraph has returned yet
NoRun == [nodeIds |-> {}, edges |-> {}, nodeCount |-> 0, edgeCount |-> 0,
          counters |-> NoCounters]

Init ==
  /\ tree \in Trees
  /\ files = scanDirectory(tree, Dot)
  /\ pc = "start"
  /\ graph = EmptyGraph
  /\ definitions = <<>>
  /\ references = <<>>
  /\ stack = <<>>
  /\ fileIdx = 1
  /\ refIdx = 1
  /\ counters = NoCounters
  /\ resolvedRefs = {}
  /\ error = "none"
  /\ parsed = {}
  /\ ensured = {}
  /\ IMPORT_RESOLVER = <<>>
  /\ FILE_REFERENCES = {}
  /\ lastAdd = NoCall
  /\ defLog = <<>>
  /\ lookups = 0
  /\ run = 1
  /\ firstRun = NoRun
  /\ order = EntryOrder
  /\ heap = <<>>
  /\ held = {}
  /\ thrown = NoThrow
  /\ denied = <<>>
  /\ ServiceIdle

Frame(dirPath, parentNodeId) ==
  [dirPath |-> dirPath, parentNodeId |-> parentNodeId, dirNodeId |-> parentNodeId,
   entries |-> <<>>, entered |-> FALSE]

Top == stack[Len(stack)]

Pop == SubSeq(stack, 1, Len(stack) - 1)

\* the stack with the first remaining entry of the top frame consumed
Consumed == [stack EXCEPT ![Len(stack)].entries = Tail(@)]

\* the root node, then the call processDirectory(localPath, ...)
BuildGraphStart ==
  /\ pc = "start"
  /\ graph' = [nodes |-> IF ~MapHas(graph.nodes, rootNodeId)
                         THEN MapSet(graph.nodes, rootNodeId,
                                     RepositoryNode(rootNodeId))
                         ELSE graph.nodes,
               edges |-> <<>>]
  /\ definitions' = <<>>
  /\ references' = <<>>
  /\ stack' = <<Frame(Dot, rootNodeId)>>
  /\ pc' = "processDirectory"
  /\ UNCHANGED <<tree, files, fileIdx, refIdx, counters, resolvedRefs, error,
                 parsed, IMPORT_RESOLVER, FILE_REFERENCES, lastAdd,
                 ensured>>
  /\ UNCHANGED <<defLog, lookups, runVars, viewVars, extVars>>

\* processDirectory up to readdirSync: the directory's node and parent edge
processDirectoryEnter ==
  /\ pc = "processDirectory"
  /\ stack # <<>>
  /\ ~Top.entered
  /\ LET relativePath == Top.dirPath
         dirNodeId == generateNodeId(RepoId, FolderPath(relativePath))
         dirNode == [nodeId |-> dirNodeId, repoId |-> RepoId,
                     name |-> IF relativePath = Dot THEN "repo"
                              ELSE Basename(relativePath),
                     type |-> IF relativePath = Dot THEN "REPOSITORY"
                              ELSE "FOLDER",
                     filePath |-> relativePath, startLine |-> 0,
                     isDirectory |-> TRUE, isReference |-> FALSE]
         connectToParent ==
           /\ relativePath # Dot
           /\ Top.parentNodeId # dirNodeId
           /\ ~edgeExists(graph.edges, Top.parentNodeId, dirNodeId,
                          "CONTAINS", RepoId)
     IN /\ graph' = IF ~MapHas(graph.nodes, dirNodeId)
                    THEN [nodes |-> MapSet(graph.nodes, dirNodeId, dirNode),
                          edges |-> IF connectToParent
                                    THEN Append(graph.edges,
                                           Edge(Top.parentNodeId, dirNodeId,
                                                "CONTAINS", RepoId))
                                    ELSE graph.edges]
                    ELSE graph
        /\ stack' = [stack EXCEPT ![Len(stack)] =
                       [@ EXCEPT !.entered = TRUE, !.dirNodeId = dirNodeId,
                                 !.entries = readdirIn(order, tree, relativePath)]]
  /\ UNCHANGED <<tree, files, pc, definitions, references, fileIdx, refIdx,
                 counters, resolvedRefs, error, parsed, IMPORT_RESOLVER,
                 FILE_REFERENCES, lastAdd,
                 ensured>>
  /\ UNCHANGED <<defLog, lookups, runVars, viewVars, extVars>>

HasEntry == pc = "processDirectory" /\ stack # <<>> /\ Top.entered
            /\ Top.entries # <<>>

FullPath == Append(Top.dirPath, Head(Top.entries))

\* the end of a processDirectory call: back in the caller's loop, or in
\* buildGraph's loop over files
Leave ==
  /\ stack' = Pop
  /\ pc' = IF Len(stack) = 1 THEN "files" ELSE pc
  /\ fileIdx' = 1

\* statSync(fullPath) throws: the catch of this processDirectory call logs it
processEntryStatThrows ==
  /\ HasEntry
  /\ StatThrows(tree, FullPath)
  /\ Leave
  /\ UNCHANGED <<tree, files, graph, definitions, references, refIdx,
                 counters, resolvedRefs, error, parsed, IMPORT_RESOLVER,
                 FILE_REFERENCES, lastAdd,
                 ensured>>
  /\ UNCHANGED <<defLog, lookups, runVars, viewVars, extVars>>

\* a hidden directory or node_modules: continue
processEntrySkipDirectory ==
  /\ HasEntry
  /\ ~StatThrows(tree, FullPath)
  /\ IsDirectory(tree, FullPath)
  /\ (StartsWithDot(Head(Top.entries)) \/ Head(Top.entries) = "node_modules")
  /\ stack' = Consumed
  /\ UNCHANGED <<tree, files, pc, graph, definitions, references, fileIdx,
                 refIdx, counters, resolvedRefs, error, parsed,
                 IMPORT_RESOLVER, FILE_REFERENCES, lastAdd,
                 ensured>>
  /\ UNCHANGED <<defLog, lookups, runVars, viewVars, extVars>>

\* await processDirectory(fullPath, ..., dirNodeId, ...)
processEntryDirectory ==
  /\ HasEntry
  /\ ~StatThrows(tree, FullPath)
  /\ IsDirectory(tree, FullPath)
  /\ ~(StartsWithDot(Head(Top.entries)) \/ Head(Top.entries) = "node_modules")
  /\ stack' = Append(Consumed, Frame(FullPath, Top.dirNodeId))
  /\ UNCHANGED <<tree, files, pc, graph, definitions, references, fileIdx,
                 refIdx, counters, resolvedRefs, error, parsed,
                 IMPORT_RESOLVER, FILE_REFERENCES, lastAdd,
                 ensured>>
  /\ UNCHANGED <<defLog, lookups, runVars, viewVars, extVars>>

\* a file that is no source file: nothing
processEntryOtherFile ==
  /\ HasEntry
  /\ ~StatThrows(tree, FullPath)
  /\ IsFile(tree, FullPath)
  /\ ExtName(Head(Top.entries)) \notin SourceExtensions
  /\ stack' = Consumed
  /\ UNCHANGED <<tree, files, pc, graph, definitions, references, fileIdx,
                 refIdx, counters, resolvedRefs, error, parsed,
                 IMPORT_RESOLVER, FILE_REFERENCES, lastAdd,
                 ensured>>
  /\ UNCHANGED <<defLog, lookups, runVars, viewVars, extVars>>

\* await processFile(fullPath, ..., dirNodeId, ...)
processEntrySourceFile ==
  /\ HasEntry
  /\ ~StatThrows(tree, FullPath)
  /\ IsFile(tree, FullPath)
  /\ ExtName(Head(Top.entries)) \in SourceExtensions
  /\ LET r == processFile(tree, FullPath, Top.dirNodeId, graph, definitions,
                          references, IMPORT_RESOLVER, FILE_REFERENCES)
     IN /\ graph' = r.graph
        /\ definitions' = r.definitions
        /\ references' = r.references
        /\ IMPORT_RESOLVER' = r.ir
        /\ FILE_REFERENCES' = r.fr
        /\ parsed' = parsed \cup {[file |-> FullPath, outcome |-> r.outcome,
                                  by |-> "processFile"]}
        /\ pc' = IF r.outcome = "pending" THEN "pending" ELSE pc
        /\ defLog' = defLog \o DefTags(r.tags)
  /\ stack' = Consumed
  /\ UNCHANGED <<tree, files, fileIdx, refIdx, counters, resolvedRefs, error,
                 lastAdd,
                 ensured>>
  /\ UNCHANGED <<lookups, runVars, viewVars, extVars>>

\* the loop over the entries is over
processDirectoryReturn ==
  /\ pc = "processDirectory"
  /\ stack # <<>>
  /\ Top.entered
  /\ Top.entries = <<>>
  /\ Leave
  /\ UNCHANGED <<tree, files, graph, definitions, references, refIdx,
                 counters, resolvedRefs, error, parsed, IMPORT_RESOLVER,
                 FILE_REFERENCES, lastAdd,
                 ensured>>
  /\ UNCHANGED <<defLog, lookups, runVars, viewVars, extVars>>

InFiles == pc = "files" /\ fileIdx <= Len(files)

\* "for (const filePath of files)": a file that is skipped
fallbackSkip ==
  /\ InFiles
  /\ LET relativePath == files[fileIdx]
         fileNodeId == generateNodeId(RepoId, FilePath(relativePath))
     IN \/ MapHas(graph.nodes, fileNodeId)
        \/ StatThrows(tree, relativePath)
        \/ FileSize(tree, relativePath) = 0
  /\ fileIdx' = fileIdx + 1
  /\ UNCHANGED <<tree, files, pc, graph, definitions, references, stack,
                 refIdx, counters, resolvedRefs, error, parsed,
                 IMPORT_RESOLVER, FILE_REFERENCES, lastAdd,
                 ensured>>
  /\ UNCHANGED <<defLog, lookups, runVars, viewVars, extVars>>

\* "for (const filePath of files)": a file the traversal did not process
fallbackFile ==
  /\ InFiles
  /\ LET relativePath == files[fileIdx]
         fileNodeId == generateNodeId(RepoId, FilePath(relativePath))
         folder == ensureFolderNode(graph, Dirname(relativePath))
         nodes1 == MapSet(folder.graph.nodes, fileNodeId,
                          FileNode(fileNodeId, relativePath))
         edges1 == addUniqueEdge(folder.graph.edges, folder.id, fileNodeId,
                                 "CONTAINS", RepoId).edges
         p == parseFile(relativePath, Content(tree[relativePath]),
                        IMPORT_RESOLVER, FILE_REFERENCES)
         st == ProcessTags([graph |-> [nodes |-> nodes1, edges |-> edges1],
                            definitions |-> definitions,
                            references |-> references],
                           p.tags, fileNodeId, relativePath)
     IN /\ ~MapHas(graph.nodes, fileNodeId)
        /\ ~StatThrows(tree, relativePath)
        /\ FileSize(tree, relativePath) # 0
        /\ graph' = st.graph
        /\ definitions' = st.definitions
        /\ references' = st.references
        /\ IMPORT_RESOLVER' = p.ir
        /\ FILE_REFERENCES' = p.fr
        /\ parsed' = parsed \cup {[file |-> relativePath, outcome |-> p.outcome,
                                  by |-> "buildGraph"]}
        /\ pc' = CASE p.outcome = "pending" -> "pending"
                   [] p.outcome = "rejected" -> "rejected"
                   [] OTHER -> pc
        /\ error' = IF p.outcome = "rejected" THEN "ParseError" ELSE error
        /\ ensured' = ensured \cup {Dirname(relativePath)}
        /\ defLog' = defLog \o DefTags(p.tags)
        /\ fileIdx' = IF p.outcome = "resolved" THEN fileIdx + 1 ELSE fileIdx
  /\ UNCHANGED <<tree, files, stack, refIdx, counters, resolvedRefs, lastAdd>>
  /\ UNCHANGED <<lookups, runVars, viewVars, extVars>>

\* the loop over files is over: the resolver pass begins
fallbackDone ==
  /\ pc = "files"
  /\ fileIdx > Len(files)
  /\ pc' = "resolve"
  /\ refIdx' = 1
  /\ counters' = NoCounters
  /\ resolvedRefs' = {}
  /\ UNCHANGED <<tree, files, graph, definitions, references, stack, fileIdx,
                 error, parsed, IMPORT_RESOLVER, FILE_REFERENCES, lastAdd,
                 ensured>>
  /\ UNCHANGED <<defLog, lookups, runVars, viewVars, extVars>>

\* "for (const ref of references)": one reference
resolveStep ==
  /\ pc = "resolve"
  /\ refIdx <= Len(references)
  /\ LET r == resolveReference(references[refIdx], graph, definitions,
                               counters, resolvedRefs)
     IN /\ graph' = r.graph
        /\ counters' = r.counters
        /\ resolvedRefs' = r.resolvedRefs
  /\ refIdx' = refIdx + 1
  /\ UNCHANGED <<tree, files, pc, definitions, references, stack, fileIdx,
                 error, parsed, IMPORT_RESOLVER, FILE_REFERENCES, lastAdd,
                 ensured>>
  /\ lookups' = lookups + 1
  /\ UNCHANGED <<defLog, runVars, viewVars, extVars>>

\* the resolver pass is over: new Neo4jGraph(graph.nodes, graph.edges)
resolveDone ==
  /\ pc = "resolve"
  /\ refIdx > Len(references)
  /\ pc' = "store"
  /\ UNCHANGED <<tree, files, graph, definitions, references, stack, fileIdx,
                 refIdx, counters, resolvedRefs, error, parsed,
                 IMPORT_RESOLVER, FILE_REFERENCES, lastAdd,
                 ensured>>
  /\ UNCHANGED <<defLog, lookups, runVars, viewVars, extVars>>

\* await neo4jService.storeGraph(...) resolves: return neo4jGraph
storeGraphOk ==
  /\ pc = "store"
  /\ pc' = "done"
  /\ UNCHANGED <<tree, files, graph, definitions, references, stack, fileIdx,
                 refIdx, counters, resolvedRefs, error, parsed,
                 IMPORT_RESOLVER, FILE_REFERENCES, lastAdd,
                 ensured>>
  /\ UNCHANGED <<defLog, lookups, runVars, viewVars, extVars>>

\* await neo4jService.storeGraph(...) rejects: so does buildGraph
storeGraphFails ==
  /\ pc = "store"
  /\ pc' = "rejected"
  /\ error' = "StoreError"
  /\ UNCHANGED <<tree, files, graph, definitions, references, stack, fileIdx,
                 refIdx, counters, resolvedRefs, parsed,
                 IMPORT_RESOLVER, FILE_REFERENCES, lastAdd,
                 ensured>>
  /\ UNCHANGED <<defLog, lookups, runVars, viewVars, extVars>>

Next ==
  \/ BuildGraphStart
  \/ processDirectoryEnter
  \/ processEntryStatThrows
  \/ processEntrySkipDirectory
  \/ processEntryDirectory
  \/ processEntryOtherFile
  \/ processEntrySourceFile
  \/ processDirectoryReturn
  \/ fallbackSkip
  \/ fallbackFile
  \/ fallbackDone
  \/ resolveStep
  \/ resolveDone
  \/ storeGraphOk
  \/ storeGraphFails

Spec == Init /\ [][Next]_vars

----------------------------------------------------------------------------
(* Two calls of buildGraph in one process: the locals of buildGraph start   *)
(* afresh, the module-level maps of the parser are what the first call left *)

\* what a call of buildGraph produced
RunResult ==
  [nodeIds |-> {graph.nodes[i].key : i \in 1..Len(graph.nodes)},
   edges |-> {graph.edges[i] : i \in 1..Len(graph.edges)},
   nodeCount |-> Len(graph.nodes), edgeCount |-> Len(graph.edges),
   counters |-> counters]

\* the first call has returned its graph: buildGraph is called again with the
\* same files and repoInfo
buildGraphAgain ==
  /\ pc = "done"
  /\ run = 1
  /\ firstRun' = RunResult
  /\ run' = 2
  /\ pc' = "start"
  /\ graph' = EmptyGraph
  /\ definitions' = <<>>
  /\ references' = <<>>
  /\ stack' = <<>>
  /\ fileIdx' = 1
  /\ refIdx' = 1
  /\ counters' = NoCounters
  /\ resolvedRefs' = {}
  /\ defLog' = <<>>
  /\ lookups' = 0
  /\ UNCHANGED <<tree, files, error, parsed, ensured, IMPORT_RESOLVER,
                 FILE_REFERENCES, lastAdd, viewVars, order, extVars>>

NextTwoRuns ==
  \/ Next
  \/ buildGraphAgain

SpecTwoRuns == Init /\ [][NextTwoRuns]_vars

----------------------------------------------------------------------------
(* buildGraph called on the same files in another order *)

Reverse(s) == [i \in 1..Len(s) |-> s[Len(s) + 1 - i]]

\* the orders a directory listing may come in
Orders == {EntryOrder, Reverse(EntryOrder)}

\* the first call has returned its graph: buildGraph is called on the same
\* repository, with the directory listings and the file list in another order
buildGraphReordered ==
  /\ pc = "done"
  /\ run = 1
  /\ firstRun' = RunResult
  /\ run' = 2
  /\ \E o \in Orders, fs \in {files, Reverse(files)} :
       /\ order' = o
       /\ files' = fs
  /\ pc' = "start"
  /\ graph' = EmptyGraph
  /\ definitions' = <<>>
  /\ references' = <<>>
  /\ stack' = <<>>
  /\ fileIdx' = 1
  /\ refIdx' = 1
  /\ counters' = NoCounters
  /\ resolvedRefs' = {}
  /\ defLog' = <<>>
  /\ lookups' = 0
  /\ UNCHANGED <<tree, error, parsed, ensured, IMPORT_RESOLVER,
                 FILE_REFERENCES, lastAdd, viewVars, extVars>>

NextOrder ==
  \/ Next
  \/ buildGraphReordered

SpecOrder == Init /\ [][NextOrder]_vars

----------------------------------------------------------------------------
(* addUniqueEdge on its own: any edge list it can build, any arguments *)

EdgeIds == {rootNodeId, generateNodeId(RepoId, FolderPath(<<"src">>))}

InitEdges ==
  /\ tree = <<>>
  /\ files = <<>>
  /\ pc = "edges"
  /\ graph = EmptyGraph
  /\ definitions = <<>>
  /\ references = <<>>
  /\ stack = <<>>
  /\ fileIdx = 1
  /\ refIdx = 1
  /\ counters = NoCounters
  /\ resolvedRefs = {}
  /\ error = "none"
  /\ parsed = {}
  /\ ensured = {}
  /\ IMPORT_RESOLVER = <<>>
  /\ FILE_REFERENCES = {}
  /\ lastAdd = NoCall
  /\ defLog = <<>>
  /\ lookups = 0
  /\ run = 1
  /\ firstRun = NoRun
  /\ order = EntryOrder
  /\ heap = <<>>
  /\ held = {}
  /\ thrown = NoThrow
  /\ denied = <<>>
  /\ ServiceIdle

addUniqueEdgeCall ==
  /\ pc = "edges"
  /\ Len(graph.edges) < MaxEdges
  /\ \E s \in EdgeIds, t \in EdgeIds, type \in {"CONTAINS", "REFERENCES"},
        repoId \in {RepoId, OtherRepoId} :
       LET r == addUniqueEdge(graph.edges, s, t, type, repoId)
       IN /\ graph' = [graph EXCEPT !.edges = r.edges]
          /\ lastAdd' = [called |-> TRUE, before |-> graph.edges,
                         sourceId |-> s, targetId |-> t, type |-> type,
                         repoId |-> repoId, ret |-> r.ret]
  /\ UNCHANGED <<tree, files, pc, definitions, references, stack, fileIdx,
                 refIdx, counters, resolvedRefs, error, parsed,
                 IMPORT_RESOLVER, FILE_REFERENCES,
                 ensured>>
  /\ UNCHANGED <<defLog, lookups, runVars, viewVars, extVars>>

NextEdges == addUniqueEdgeCall

SpecEdges == InitEdges /\ [][NextEdges]_vars

----------------------------------------------------------------------------
(* Neo4jGraph, the view buildGraph returns.  Its private fields nodes and   *)
(* edges are references to a Map and an array on the heap; the arrays its   *)
(* getters return are on the heap too, and the caller may change them.      *)

NodesField == "this.nodes"

EdgesField == "this.edges"

\* the addresses of the arrays the getters allocate, in allocation order
ArrayAddrs == <<"array1", "array2", "array3">>

HeapPut(h, a, v) == [x \in DOMAIN h \cup {a} |-> IF x = a THEN v ELSE h[x]]

\* Array.from(this.nodes.values()): a new array at address fresh
getNodes(h, fresh) ==
  [heap |-> HeapPut(h, fresh, [i \in 1..Len(h[NodesField]) |->
                                 h[NodesField][i].value]),
   ret |-> fresh]

\* a getter that hands out the private array itself
getEdgesAliased(h, fresh) == [heap |-> h, ret |-> EdgesField]

\* [...this.edges]: a new array at address fresh
getEdges(h, fresh) ==
  [heap |-> HeapPut(h, fresh, h[EdgesField]), ret |-> fresh]

numberOfNodes(h) == Len(h[NodesField])

numberOfEdges(h) == Len(h[EdgesField])

\* throw new Error('Cannot add nodes to Neo4jGraph - it is read-only')
addNode(h, nodeId, data) ==
  [heap |-> h, error |-> "Cannot add nodes to Neo4jGraph - it is read-only"]

\* throw new Error('Cannot add edges to Neo4jGraph - it is read-only')
addEdge(h, sourceId, targetId, data) ==
  [heap |-> h, error |-> "Cannot add edges to Neo4jGraph - it is read-only"]

\* new Neo4jGraph(nodes, edges): the two private fields
Neo4jGraph(nodes, edges) ==
  [a \in {NodesField, EdgesField} |-> IF a = NodesField THEN nodes ELSE edges]

\* graphs a Neo4jGraph is constructed on
ViewGraphs ==
  LET g0 == [nodes |-> MapSet(<<>>, rootNodeId, RepositoryNode(rootNodeId)),
             edges |-> <<>>]
  IN {g0, ensureFolderNode(g0, <<"src">>).graph,
      ensureFolderNode(g0, <<"src", "lib">>).graph}

\* new Neo4jGraph(graph.nodes, graph.edges)
InitView ==
  /\ graph \in ViewGraphs
  /\ heap = [a \in {NodesField, EdgesField} |->
               IF a = NodesField THEN graph.nodes ELSE graph.edges]
  /\ held = {}
  /\ thrown = NoThrow
  /\ denied = <<>>
  /\ ServiceIdle
  /\ pc = "view"
  /\ tree = <<>>
  /\ files = <<>>
  /\ definitions = <<>>
  /\ references = <<>>
  /\ stack = <<>>
  /\ fileIdx = 1
  /\ refIdx = 1
  /\ counters = NoCounters
  /\ resolvedRefs = {}
  /\ error = "none"
  /\ parsed = {}
  /\ ensured = {}
  /\ IMPORT_RESOLVER = <<>>
  /\ FILE_REFERENCES = {}
  /\ lastAdd = NoCall
  /\ defLog = <<>>
  /\ lookups = 0
  /\ run = 1
  /\ firstRun = NoRun
  /\ order = EntryOrder

CanAllocate == pc = "view" /\ Cardinality(held) < MaxArrays

FreshAddr == ArrayAddrs[Cardinality(held) + 1]

getNodesCall ==
  /\ CanAllocate
  /\ LET r == getNodes(heap, FreshAddr)
     IN /\ heap' = r.heap
        /\ held' = held \cup {r.ret}
  /\ thrown' = [call |-> "getNodes", error |-> "none"]
  /\ UNCHANGED <<tree, files, pc, graph, definitions, references, stack,
                 fileIdx, refIdx, counters, resolvedRefs, error, parsed,
                 ensured, IMPORT_RESOLVER, FILE_REFERENCES, lastAdd, defLog,
                 lookups, runVars, extVars>>

getEdgesCall ==
  /\ CanAllocate
  /\ LET r == getEdges(heap, FreshAddr)
     IN /\ heap' = r.heap
        /\ held' = held \cup {r.ret}
  /\ thrown' = [call |-> "getEdges", error |-> "none"]
  /\ UNCHANGED <<tree, files, pc, graph, definitions, references, stack,
                 fileIdx, refIdx, counters, resolvedRefs, error, parsed,
                 ensured, IMPORT_RESOLVER, FILE_REFERENCES, lastAdd, defLog,
                 lookups, runVars, extVars>>

addNodeCall ==
  /\ pc = "view"
  /\ \E p \in {<<"lib">>, <<"src">>} :
       LET nodeId == generateNodeId(RepoId, FolderPath(p))
           r == addNode(heap, nodeId, FolderNode(nodeId, p))
       IN /\ heap' = r.heap
          /\ thrown' = [call |-> "addNode", error |-> r.error]
  /\ UNCHANGED <<tree, files, pc, graph, definitions, references, stack,
                 fileIdx, refIdx, counters, resolvedRefs, error, parsed,
                 ensured, IMPORT_RESOLVER, FILE_REFERENCES, lastAdd, defLog,
                 lookups, runVars, held, extVars>>

addEdgeCall ==
  /\ pc = "view"
  /\ \E s \in EdgeIds, t \in EdgeIds :
       LET r == addEdge(heap, s, t, Edge(s, t, "CONTAINS", RepoId))
       IN /\ heap' = r.heap
          /\ thrown' = [call |-> "addEdge", error |-> r.error]
  /\ UNCHANGED <<tree, files, pc, graph, definitions, references, stack,
                 fileIdx, refIdx, counters, resolvedRefs, error, parsed,
                 ensured, IMPORT_RESOLVER, FILE_REFERENCES, lastAdd, defLog,
                 lookups, runVars, held, extVars>>

\* the element a caller pushes
Pushed == [pushedBy |-> "caller"]

\* the caller pushes onto an array a getter returned
pushReturned ==
  /\ pc = "view"
  /\ \E a \in held :
       /\ Len(heap[a]) < MaxArrayLen
       /\ heap' = [heap EXCEPT ![a] = Append(@, Pushed)]
  /\ thrown' = [call |-> "push", error |-> "none"]
  /\ UNCHANGED <<tree, files, pc, graph, definitions, references, stack,
                 fileIdx, refIdx, counters, resolvedRefs, error, parsed,
                 ensured, IMPORT_RESOLVER, FILE_REFERENCES, lastAdd, defLog,
                 lookups, runVars, held, extVars>>

\* the caller pops from an array a getter returned
popReturned ==
  /\ pc = "view"
  /\ \E a \in held :
       /\ heap[a] # <<>>
       /\ heap' = [heap EXCEPT ![a] = SubSeq(@, 1, Len(@) - 1)]
  /\ thrown' = [call |-> "pop", error |-> "none"]
  /\ UNCHANGED <<tree, files, pc, graph, definitions, references, stack,
                 fileIdx, refIdx, counters, resolvedRefs, error, parsed,
                 ensured, IMPORT_RESOLVER, FILE_REFERENCES, lastAdd, defLog,
                 lookups, runVars, held, extVars>>

NextView ==
  \/ getNodesCall
  \/ getEdgesCall
  \/ addNodeCall
  \/ addEdgeCall
  \/ pushReturned
  \/ popReturned

SpecView == InitView /\ [][NextView]_vars

----------------------------------------------------------------------------
(* scanDirectory as the async generator it is: one frame per directory     *)
(* being scanned, fs.readdir failing on the directories of denied.  The    *)
(* paths yielded so far are in files.                                      *)

BIN == <<"src", "logo.png">>

ErrorCodes == {"EACCES", "EPERM", "ENOENT", "EIO"}

ScanTrees ==
  UNION {{t \in [S -> {"text", "binary", "dangling", "empty"}] :
            \A f \in S : /\ (t[f] = "binary") = (f = BIN)
                          /\ (t[f] = "dangling") = (f = LINK)} :
           S \in {S \in SUBSET (CandidateFiles \cup {BIN}) :
                    Cardinality(S) <= MaxFiles}}

\* the directories of tree t, the scan root included
DirsOf(t) ==
  {Dot} \cup UNION {{SubSeq(f, 1, n) : n \in 1..(Len(f) - 1)} : f \in DOMAIN t}

ScanFrame(dirPath) == [dirPath |-> dirPath, entries |-> <<>>, entered |-> FALSE]

\* the catch of scanDirectory that rethrows what it does not know
scanCatchRethrowsUnknown(code) ==
  IF code \in {"EACCES", "EPERM", "ENOENT"} THEN "none" ELSE code

\* the catch of scanDirectory: what it throws in its turn
scanCatch(code) == "none"

InitScan ==
  /\ tree \in ScanTrees
  /\ denied \in UNION {[S -> ErrorCodes] :
                        S \in {S \in SUBSET DirsOf(tree) :
                                 Cardinality(S) <= MaxDenied}}
  /\ files = <<>>
  /\ pc = "scan"
  /\ stack = <<ScanFrame(Dot)>>
  /\ graph = EmptyGraph
  /\ definitions = <<>>
  /\ references = <<>>
  /\ fileIdx = 1
  /\ refIdx = 1
  /\ counters = NoCounters
  /\ resolvedRefs = {}
  /\ error = "none"
  /\ parsed = {}
  /\ ensured = {}
  /\ IMPORT_RESOLVER = <<>>
  /\ FILE_REFERENCES = {}
  /\ lastAdd = NoCall
  /\ defLog = <<>>
  /\ lookups = 0
  /\ run = 1
  /\ firstRun = NoRun
  /\ order = EntryOrder
  /\ heap = <<>>
  /\ held = {}
  /\ thrown = NoThrow
  /\ ServiceIdle

ScanUnchanged ==
  UNCHANGED <<tree, graph, definitions, references, fileIdx, refIdx, counters,
              resolvedRefs, parsed, ensured, IMPORT_RESOLVER, FILE_REFERENCES,
              lastAdd, defLog, lookups, runVars, viewVars, denied, svc, reply,
              sent, input>>

Scanning == pc = "scan" /\ stack # <<>>

ScanHasEntry == Scanning /\ Top.entered /\ Top.entries # <<>>

\* the generator of this directory returns
ScanLeave ==
  /\ stack' = Pop
  /\ pc' = IF Len(stack) = 1 THEN "scanned" ELSE pc

\* await fs.readdir(dirPath, ...) rejects: the catch logs the error
scanReaddirFails ==
  /\ Scanning
  /\ ~Top.entered
  /\ Top.dirPath \in DOMAIN denied
  /\ LET rethrown == scanCatch(denied[Top.dirPath])
     IN IF rethrown = "none"
        THEN ScanLeave /\ UNCHANGED error
        ELSE /\ stack' = <<>>
             /\ pc' = "raised"
             /\ error' = rethrown
  /\ UNCHANGED files
  /\ ScanUnchanged

scanReaddirOk ==
  /\ Scanning
  /\ ~Top.entered
  /\ Top.dirPath \notin DOMAIN denied
  /\ stack' = [stack EXCEPT ![Len(stack)].entries = readdir(tree, Top.dirPath),
                            ![Len(stack)].entered = TRUE]
  /\ UNCHANGED <<files, pc, error>>
  /\ ScanUnchanged

\* resolvedIgnore.has(baseName): continue
scanEntryIgnored ==
  /\ ScanHasEntry
  /\ Head(Top.entries) \in DEFAULT_IGNORE_PATTERNS
  /\ stack' = Consumed
  /\ UNCHANGED <<files, pc, error>>
  /\ ScanUnchanged

\* entry.isDirectory(): yield* scanDirectory(fullPath, ...)
scanEntryDirectory ==
  /\ ScanHasEntry
  /\ Head(Top.entries) \notin DEFAULT_IGNORE_PATTERNS
  /\ IsDirectory(tree, FullPath)
  /\ stack' = Append(Consumed, ScanFrame(FullPath))
  /\ UNCHANGED <<files, pc, error>>
  /\ ScanUnchanged

\* entry.isFile() && filterFn(fullPath): yield fullPath
scanEntryFile ==
  /\ ScanHasEntry
  /\ Head(Top.entries) \notin DEFAULT_IGNORE_PATTERNS
  /\ ~IsDirectory(tree, FullPath)
  /\ IsFile(tree, FullPath) /\ isLikelyTextFile(tree, FullPath)
  /\ files' = Append(files, FullPath)
  /\ stack' = Consumed
  /\ UNCHANGED <<pc, error>>
  /\ ScanUnchanged

\* neither a directory nor an accepted regular file: next entry
scanEntryOther ==
  /\ ScanHasEntry
  /\ Head(Top.entries) \notin DEFAULT_IGNORE_PATTERNS
  /\ ~IsDirectory(tree, FullPath)
  /\ ~(IsFile(tree, FullPath) /\ isLikelyTextFile(tree, FullPath))
  /\ stack' = Consumed
  /\ UNCHANGED <<files, pc, error>>
  /\ ScanUnchanged

\* the entries of this directory are exhausted
scanReturn ==
  /\ Scanning
  /\ Top.entered
  /\ Top.entries = <<>>
  /\ ScanLeave
  /\ UNCHANGED <<files, error>>
  /\ ScanUnchanged

NextScan ==
  \/ scanReaddirFails
  \/ scanReaddirOk
  \/ scanEntryIgnored
  \/ scanEntryDirectory
  \/ scanEntryFile
  \/ scanEntryOther
  \/ scanReturn

\* the consumer (for await) keeps asking for the next path
SpecScan == InitScan /\ [][NextScan]_vars /\ WF_vars(NextScan)

----------------------------------------------------------------------------
(* Any sequence of calls on one Neo4jService *)

SmallGraph == [nodes |-> 2, edges |-> 1, pattern |-> "contains"]

InitService ==
  /\ pc = "service"
  /\ svc = NoService
  /\ reply = NoReply
  /\ sent = <<>>
  /\ input = [kind |-> "calls", calls |-> 0]
  /\ denied = <<>>
  /\ tree = <<>>
  /\ files = <<>>
  /\ stack = <<>>
  /\ graph = EmptyGraph
  /\ definitions = <<>>
  /\ references = <<>>
  /\ fileIdx = 1
  /\ refIdx = 1
  /\ counters = NoCounters
  /\ resolvedRefs = {}
  /\ error = "none"
  /\ parsed = {}
  /\ ensured = {}
  /\ IMPORT_RESOLVER = <<>>
  /\ FILE_REFERENCES = {}
  /\ lastAdd = NoCall
  /\ defLog = <<>>
  /\ lookups = 0
  /\ run = 1
  /\ firstRun = NoRun
  /\ order = EntryOrder
  /\ heap = <<>>
  /\ held = {}
  /\ thrown = NoThrow

ServiceUnchanged ==
  UNCHANGED <<tree, files, pc, graph, definitions, references, stack, fileIdx,
              refIdx, counters, resolvedRefs, error, parsed, ensured,
              IMPORT_RESOLVER, FILE_REFERENCES, lastAdd, defLog, lookups,
              runVars, viewVars, denied>>

CanCall == pc = "service" /\ input.calls < MaxCalls

\* the call op settled as r
Called(op, r) ==
  /\ svc' = r.svc
  /\ reply' = [op |-> op, outcome |-> r.outcome]
  /\ input' = [input EXCEPT !.calls = @ + 1]

connectCall ==
  /\ CanCall
  /\ \E o \in ConnectOutcomes : Called("connect", connect(svc, o))
  /\ UNCHANGED sent
  /\ ServiceUnchanged

closeCall ==
  /\ CanCall
  /\ Called("close", close(svc))
  /\ UNCHANGED sent
  /\ ServiceUnchanged

ensureIndexCall ==
  /\ CanCall
  /\ \E o \in {"ok", "rejects"} : Called("ensureIndex", sessionOp(svc, o))
  /\ UNCHANGED sent
  /\ ServiceUnchanged

deleteRepoDataCall ==
  /\ CanCall
  /\ \E o \in {"ok", "rejects"} : Called("deleteRepoData", sessionOp(svc, o))
  /\ UNCHANGED sent
  /\ ServiceUnchanged

queryCall ==
  /\ CanCall
  /\ \E o \in {"ok", "rejects"} : Called("query", sessionOp(svc, o))
  /\ UNCHANGED sent
  /\ ServiceUnchanged

getNodeByIdCall ==
  /\ CanCall
  /\ \E o \in {"ok", "rejects"} : Called("getNodeById", sessionOp(svc, o))
  /\ UNCHANGED sent
  /\ ServiceUnchanged

storeGraphCall ==
  /\ CanCall
  /\ \E failAt \in 0..2 :
       LET r == storeGraph(svc, SmallGraph, failAt)
       IN Called("storeGraph", r) /\ sent' = r.runs
  /\ ServiceUnchanged

NextService ==
  \/ connectCall
  \/ closeCall
  \/ ensureIndexCall
  \/ deleteRepoDataCall
  \/ queryCall
  \/ getNodeByIdCall
  \/ storeGraphCall

SpecService == InitService /\ [][NextService]_vars

----------------------------------------------------------------------------
(* storeGraph on a connected service, for graphs around the batch limits *)

GraphSizes ==
  {0, 1} \cup UNION {{k * batchSize, k * batchSize + 1} : k \in 1..MaxBatches}

InitStore ==
  /\ pc = "storing"
  /\ svc = connect(NoService, "ok").svc
  /\ reply = NoReply
  /\ sent = <<>>
  /\ input \in [kind : {"graph"}, nodes : GraphSizes, edges : GraphSizes,
                 pattern : {"contains", "mixed"}]
  /\ denied = <<>>
  /\ tree = <<>>
  /\ files = <<>>
  /\ stack = <<>>
  /\ graph = EmptyGraph
  /\ definitions = <<>>
  /\ references = <<>>
  /\ fileIdx = 1
  /\ refIdx = 1
  /\ counters = NoCounters
  /\ resolvedRefs = {}
  /\ error = "none"
  /\ parsed = {}
  /\ ensured = {}
  /\ IMPORT_RESOLVER = <<>>
  /\ FILE_REFERENCES = {}
  /\ lastAdd = NoCall
  /\ defLog = <<>>
  /\ lookups = 0
  /\ run = 1
  /\ firstRun = NoRun
  /\ order = EntryOrder
  /\ heap = <<>>
  /\ held = {}
  /\ thrown = NoThrow

\* storeGraph(graph, repoId), any one of its session.run calls rejecting
storeGraphRuns ==
  /\ pc = "storing"
  /\ \E failAt \in 0..Len(RunsOf(input)) :
       LET r == storeGraph(svc, input, failAt)
       IN /\ svc' = r.svc
          /\ reply' = [op |-> "storeGraph", outcome |-> r.outcome]
          /\ sent' = r.runs
  /\ pc' = "stored"
  /\ UNCHANGED <<tree, files, graph, definitions, references, stack, fileIdx,
                 refIdx, counters, resolvedRefs, error, parsed, ensured,
                 IMPORT_RESOLVER, FILE_REFERENCES, lastAdd, defLog, lookups,
                 runVars, viewVars, denied, input>>

NextStore == storeGraphRuns

SpecStore == InitStore /\ [][NextStore]_vars

----------------------------------------------------------------------------
(* createRepoMap: connect, ensureIndex, clear, fetch, scan, buildGraph      *)
(* (the state machine above), storeGraph, generateEmbeddings, then the      *)
(* catch and the finally.  input.own: createRepoMap constructs the service  *)
(* itself; otherwise the caller passed a connected one in the options.      *)

MapTrees == {t \in Trees : Cardinality(DOMAIN t) <= 1}

InitMap ==
  /\ tree \in MapTrees
  /\ input \in [kind : {"createRepoMap"}, own : BOOLEAN, clear : BOOLEAN]
  /\ svc = IF input.own THEN NoService ELSE connect(NoService, "ok").svc
  /\ pc = IF input.own THEN "map:connect" ELSE "map:clear"
  /\ reply = [op |-> "createRepoMap", outcome |-> "", caught |-> "none",
              closeCalls |-> 0]
  /\ sent = <<>>
  /\ denied = <<>>
  /\ files = <<>>
  /\ stack = <<>>
  /\ graph = EmptyGraph
  /\ definitions = <<>>
  /\ references = <<>>
  /\ fileIdx = 1
  /\ refIdx = 1
  /\ counters = NoCounters
  /\ resolvedRefs = {}
  /\ error = "none"
  /\ parsed = {}
  /\ ensured = {}
  /\ IMPORT_RESOLVER = <<>>
  /\ FILE_REFERENCES = {}
  /\ lastAdd = NoCall
  /\ defLog = <<>>
  /\ lookups = 0
  /\ run = 1
  /\ firstRun = NoRun
  /\ order = EntryOrder
  /\ heap = <<>>
  /\ held = {}
  /\ thrown = NoThrow

MapUnchanged ==
  UNCHANGED <<tree, graph, definitions, references, stack, fileIdx, refIdx,
              counters, resolvedRefs, error, parsed, ensured, IMPORT_RESOLVER,
              FILE_REFERENCES, lastAdd, defLog, lookups, runVars, viewVars,
              denied, input>>

\* an awaited call settled with outcome o: on to the next step, or into the
\* catch, which logs and rethrows, and from there into the finally
Await(o, next) ==
  IF o = "ok"
  THEN pc' = next /\ UNCHANGED reply
  ELSE pc' = "map:finally" /\ reply' = [reply EXCEPT !.caught = o]

\* neo4jService = new Neo4jService(); await neo4jService.connect()
mapConnect ==
  /\ pc = "map:connect"
  /\ \E o \in ConnectOutcomes :
       LET r == connect(svc, o)
       IN svc' = r.svc /\ Await(r.outcome, "map:ensureIndex")
  /\ UNCHANGED <<files, sent>>
  /\ MapUnchanged

\* await neo4jService.ensureIndex()
mapEnsureIndex ==
  /\ pc = "map:ensureIndex"
  /\ \E o \in {"ok", "rejects"} :
       LET r == sessionOp(svc, o)
       IN svc' = r.svc /\ Await(r.outcome, "map:clear")
  /\ UNCHANGED <<files, sent>>
  /\ MapUnchanged

\* if (clearExistingData) await neo4jService.deleteRepoData(repoId)
mapClear ==
  /\ pc = "map:clear"
  /\ IF input.clear
     THEN \E o \in {"ok", "rejects"} :
            LET r == sessionOp(svc, o)
            IN svc' = r.svc /\ Await(r.outcome, "map:fetch")
     ELSE pc' = "map:fetch" /\ UNCHANGED <<svc, reply>>
  /\ UNCHANGED <<files, sent>>
  /\ MapUnchanged

\* await fetchRepository(...) or getLocalRepoInfo(...)
mapFetch ==
  /\ pc = "map:fetch"
  /\ \E o \in {"ok", "FetchError"} : Await(o, "map:scan")
  /\ UNCHANGED <<files, svc, sent>>
  /\ MapUnchanged

\* for await (const filePath of scanDirectory(...)) files.push(filePath),
\* then the call of buildGraph
mapScan ==
  /\ pc = "map:scan"
  /\ files' = scanDirectory(tree, Dot)
  /\ pc' = "start"
  /\ UNCHANGED <<svc, reply, sent>>
  /\ MapUnchanged

\* await buildGraph(...) rejects
mapBuildRejected ==
  /\ pc = "rejected"
  /\ Await(error, "map:finally")
  /\ UNCHANGED <<files, svc, sent>>
  /\ MapUnchanged

\* await buildGraph(...) resolves: await neo4jService.storeGraph(graph, repoId)
mapStore ==
  /\ pc = "done"
  /\ \E failAt \in 0..1 :
       LET r == storeGraph(svc, [nodes |-> Len(graph.nodes),
                                 edges |-> Len(graph.edges),
                                 pattern |-> "contains"], failAt)
       IN /\ svc' = r.svc
          /\ sent' = r.runs
          /\ Await(r.outcome, "map:embed")
  /\ UNCHANGED files
  /\ MapUnchanged

\* await generateEmbeddings(neo4jService, repoId)
mapEmbed ==
  /\ pc = "map:embed"
  /\ \E o \in {"ok", "EmbeddingError"} : Await(o, "map:finally")
  /\ UNCHANGED <<files, svc, sent>>
  /\ MapUnchanged

\* finally: close the service createRepoMap created; then the promise of
\* createRepoMap settles, with the rethrown error if there was one
mapFinally ==
  /\ pc = "map:finally"
  /\ svc' = IF input.own THEN close(svc).svc ELSE svc
  /\ reply' = [reply EXCEPT
                 !.closeCalls = IF input.own THEN @ + 1 ELSE @,
                 !.outcome = IF reply.caught = "none" THEN "ok"
                             ELSE reply.caught]
  /\ pc' = "settled"
  /\ UNCHANGED <<files, sent>>
  /\ MapUnchanged

NextMap ==
  \/ mapConnect
  \/ mapEnsureIndex
  \/ mapClear
  \/ mapFetch
  \/ mapScan
  \/ Next
  \/ mapBuildRejected
  \/ mapStore
  \/ mapEmbed
  \/ mapFinally

SpecMap == InitMap /\ [][NextMap]_vars

----------------------------------------------------------------------------
(* Properties *)

NodeIndices == 1..Len(graph.nodes)

EdgeIndices == 1..Len(graph.edges)

HasEdge(s, t, type) ==
  \E i \in EdgeIndices : graph.edges[i] = Edge(s, t, type, RepoId)

fileNodeIdOf(relativePath) == generateNodeId(RepoId, FilePath(relativePath))

folderNodeIdOf(folderPath) == generateNodeId(RepoId, FolderPath(folderPath))

\* the files whose await on parseFile settled with tags
Extracted == {r.file : r \in {x \in parsed : x.outcome = "resolved"}}

EventsOf(f) ==
  LET ev == Content(tree[f]).events IN {ev[i] : i \in 1..Len(ev)}

\* C1: every run of buildGraph finishes the extraction pass and the resolver
\* pass and returns the graph, whatever the extensions of the listed files:
\* buildGraph is never left awaiting a parseFile promise that nothing will
\* settle (pc = "pending", where no step is possible any more).
C1_NoAwaitPendsForever == pc # "pending"

\* C2: a parse failure of one file never aborts the run, in processFile or in
\* the loop over files: buildGraph is not rejected by it, and the failing
\* file keeps its File node and has no definition node and no buffered
\* reference.
C2_ParseFailureIsolated ==
  /\ error # "ParseError"
  /\ \A r \in parsed : r.outcome = "rejected" =>
       /\ MapHas(graph.nodes, fileNodeIdOf(r.file))
       /\ \A i \in NodeIndices :
            graph.nodes[i].value.filePath = r.file =>
              graph.nodes[i].value.type = "FILE"
       /\ \A j \in 1..Len(references) : references[j].filePath # r.file

\* C3: once the resolver pass is over, for a function defined in one
\* processed file and a reference tag of type functionCall to that name in
\* another, the graph holds a reference node (isReference) under the calling
\* file's File node by a CONTAINS edge, with a REFERENCES edge to the node
\* of the definition.
C3_CrossFileCallLinked ==
  pc \in {"store", "done"} =>
    \A i \in NodeIndices, j \in 1..Len(references) :
      LET d == graph.nodes[i].value
          ref == references[j]
      IN (/\ d.type = "function"
          /\ ref.type = "functionCall"
          /\ ref.name = d.name
          /\ ref.filePath # d.filePath)
         => \E k \in NodeIndices :
              /\ graph.nodes[k].value.isReference
              /\ HasEdge(fileNodeIdOf(ref.filePath), graph.nodes[k].key, "CONTAINS")
              /\ HasEdge(graph.nodes[k].key, graph.nodes[i].key, "REFERENCES")

\* the node ids a set of node ids reaches along CONTAINS edges
RECURSIVE ContainsClosure(_)
ContainsClosure(S) ==
  LET more == {graph.edges[i].targetId :
                 i \in {x \in EdgeIndices : /\ graph.edges[x].type = "CONTAINS"
                                            /\ graph.edges[x].sourceId \in S}}
  IN IF more \subseteq S THEN S ELSE ContainsClosure(S \cup more)

\* C4: in the graph buildGraph returns, every node other than the
\* repository-root node (digest of 'repo:root') is reachable from it along
\* CONTAINS edges.
C4_HierarchyConnected ==
  pc = "done" =>
    \A i \in NodeIndices :
      graph.nodes[i].key \in ContainsClosure({rootNodeId})

\* C5: after every graph mutation, any two node ids have at most one CONTAINS
\* edge between them, counting both directions.
C5_NoDuplicateContains ==
  \A i \in EdgeIndices, j \in EdgeIndices :
    (/\ i < j
     /\ graph.edges[i].type = "CONTAINS"
     /\ graph.edges[j].type = "CONTAINS")
    => /\ ~(/\ graph.edges[i].sourceId = graph.edges[j].sourceId
            /\ graph.edges[i].targetId = graph.edges[j].targetId)
       /\ ~(/\ graph.edges[i].sourceId = graph.edges[j].targetId
            /\ graph.edges[i].targetId = graph.edges[j].sourceId)

\* a file whose two definition tags (class A, method A, both on line 1) have
\* the same node id has been processed: its File node has one CONTAINS edge
\* to that node
C5_Witness ==
  \E f \in Extracted :
    /\ tree[f] = "classA"
    /\ HasEdge(fileNodeIdOf(f),
               generateNodeId(RepoId, DefInsertPath(AbsPath(f), "A", 1)),
               "CONTAINS")

FolderPaths ==
  UNION {{SubSeq(f, 1, n) : n \in 1..(Len(f) - 1)} : f \in CandidateFiles}

FolderNodesFor(g, folderPath) ==
  {i \in 1..Len(g.nodes) : /\ g.nodes[i].value.type = "FOLDER"
                           /\ g.nodes[i].value.filePath = folderPath}

ContainsInto(g, id) ==
  {i \in 1..Len(g.edges) : /\ g.edges[i].type = "CONTAINS"
                           /\ g.edges[i].targetId = id}

\* two calls of ensureFolderNode in a row: same id, same graph
TwiceSame(g, folderPath) ==
  LET first == ensureFolderNode(g, folderPath)
      second == ensureFolderNode(first.graph, folderPath)
  IN first.id = second.id /\ second.graph = first.graph

\* after the two calls: one Folder node for the path, one CONTAINS edge into it
OneFolderOneEdge(g, folderPath) ==
  LET first == ensureFolderNode(g, folderPath)
      second == ensureFolderNode(first.graph, folderPath)
  IN /\ Cardinality(FolderNodesFor(second.graph, folderPath)) = 1
     /\ Cardinality(ContainsInto(second.graph, second.id)) = 1

\* C7 as stated: on every reachable graph and for every folder path, "."
\* included, two calls of ensureFolderNode return the same id, the second
\* changes nothing, and the path has exactly one Folder node with exactly one
\* CONTAINS edge into it.
C7_AnyPathOneFolderOneEdge ==
  pc # "start" =>
    \A p \in FolderPaths \cup {Dot} :
      TwiceSame(graph, p) /\ OneFolderOneEdge(graph, p)

\* C7 amended: on every reachable graph, two calls of ensureFolderNode with
\* the same path return the same id and the second changes nothing; for a
\* path other than "." there is then exactly one Folder node for it with
\* exactly one CONTAINS edge into it; for "." the call returns the id of the
\* repository-root node and adds no node and no edge.
C7_EnsureFolderNodeIdempotent ==
  pc # "start" =>
    /\ \A p \in FolderPaths \cup {Dot} : TwiceSame(graph, p)
    /\ \A p \in FolderPaths : OneFolderOneEdge(graph, p)
    /\ ensureFolderNode(graph, Dot) = [graph |-> graph, id |-> rootNodeId]

\* buildGraph has called ensureFolderNode for .cfg and for .cfg/sub, whose
\* call reaches .cfg a second time
C7_Witness ==
  /\ pc = "done"
  /\ {<<".cfg">>, <<".cfg", "sub">>} \subseteq ensured
  /\ Cardinality(ContainsInto(graph, folderNodeIdOf(<<".cfg">>))) = 1

\* C8: after ensureFolderNode(p) has returned, p and every ancestor folder of
\* p has a Folder node that is the target of exactly one CONTAINS edge, from
\* its parent folder's node, and the chain ends at the repository-root node
\* (digest of 'repo:root').
C8_FolderChainEndsAtRoot ==
  \A p \in ensured : \A n \in 1..Len(p) :
    LET q == SubSeq(p, 1, n)
        parentId == IF n = 1 THEN rootNodeId ELSE folderNodeIdOf(Dirname(q))
    IN /\ FolderNodesFor(graph, q) # {}
       /\ MapHas(graph.nodes, folderNodeIdOf(q))
       /\ Cardinality(ContainsInto(graph, folderNodeIdOf(q))) = 1
       /\ \A i \in ContainsInto(graph, folderNodeIdOf(q)) :
            graph.edges[i].sourceId = parentId

\* C9: addUniqueEdge returns true exactly when it appended the edge, and
\* false, with the list unchanged, exactly when the same edge is in the list
\* or, for CONTAINS, the reverse edge is; for REFERENCES the reverse edge
\* does not block.
C9_AddUniqueEdgeContract ==
  lastAdd.called =>
    LET e == Edge(lastAdd.sourceId, lastAdd.targetId, lastAdd.type, lastAdd.repoId)
        rev == Edge(lastAdd.targetId, lastAdd.sourceId, lastAdd.type, lastAdd.repoId)
        InBefore(x) == \E i \in 1..Len(lastAdd.before) : lastAdd.before[i] = x
        blocked == InBefore(e) \/ (lastAdd.type = "CONTAINS" /\ InBefore(rev))
    IN /\ lastAdd.ret <=> ~blocked
       /\ lastAdd.ret => graph.edges = Append(lastAdd.before, e)
       /\ ~lastAdd.ret => graph.edges = lastAdd.before

\* a CONTAINS edge was refused because only its reverse was in the list
C9_Witness ==
  /\ lastAdd.called
  /\ lastAdd.type = "CONTAINS"
  /\ ~lastAdd.ret
  /\ lastAdd.sourceId # lastAdd.targetId
  /\ \E i \in 1..Len(lastAdd.before) :
       lastAdd.before[i] = Edge(lastAdd.targetId, lastAdd.sourceId,
                                "CONTAINS", lastAdd.repoId)
  /\ \A i \in 1..Len(lastAdd.before) :
       lastAdd.before[i] # Edge(lastAdd.sourceId, lastAdd.targetId,
                                "CONTAINS", lastAdd.repoId)

\* a call of a language built-in, a platform global, or a method of a
\* built-in prototype
IsBuiltinCall(e) ==
  /\ IsCall(e)
  /\ \/ e.k = "Call:Identifier" /\ e.name \in allGlobals
     \/ e.k = "Call:Member" /\ e.obj \in allGlobals
     \/ e.k \in {"Call:Member", "Call:DeepMember"}
        /\ e.name \in getBuiltinPrototypeMethods

\* C10: a call of a built-in or global function or method never produces a
\* reference tag: no buffered reference comes from such a call expression.
C10_BuiltinCallsFiltered ==
  \A f \in Extracted : \A e \in EventsOf(f) :
    IsBuiltinCall(e) =>
      \A j \in 1..Len(references) :
        ~(references[j].filePath = f /\ references[j].startLine = e.line)

\* C11: a new expression whose constructor name is in the combined
\* global-symbols set (new Map(), new Promise(...), new Date(), not only
\* new Error()) produces no constructorCall reference tag.
C11_GlobalConstructorsFiltered ==
  \A f \in Extracted : \A e \in EventsOf(f) :
    (e.k = "NewExpression" /\ e.name \in allGlobals) =>
      \A j \in 1..Len(references) :
        ~(/\ references[j].filePath = f
          /\ references[j].type = "constructorCall"
          /\ references[j].name = e.name
          /\ references[j].startLine = e.line)

\* C12: a second call of buildGraph in the same process, on the same repoId,
\* file list and file contents, with the parser's module-level maps as the
\* first call left them, returns a graph with the same set of node ids, the
\* same set of edges and the same node, edge and resolver counts.
C12_SecondRunSame ==
  (run = 2 /\ pc = "done") => RunResult = firstRun

\* the second call has returned, and both calls parsed a file that calls
\* helper(), the name the import resolution looks up
C12_Witness ==
  /\ run = 2
  /\ pc = "done"
  /\ \E f \in Extracted : tree[f] \in {"callHelper", "importHelper"}
  /\ counters.missingDefinitions > 0
  /\ firstRun.nodeCount > 2

\* the extraction of every file is over: the traversal and the loop over
\* files have both finished
ExtractionOver ==
  \/ pc \in {"resolve", "store", "done"}
  \/ pc = "rejected" /\ error = "StoreError"

\* C13: until the extraction of every file is over, the graph holds no
\* reference node and no REFERENCES edge and no lookup in the definitions
\* index has been made; and once the resolver pass has started, no step
\* writes the definitions index.
C13_TwoPassOrdering ==
  /\ [](~ExtractionOver =>
          /\ lookups = 0
          /\ \A i \in NodeIndices : ~graph.nodes[i].value.isReference
          /\ \A i \in EdgeIndices : graph.edges[i].type # "REFERENCES")
  /\ [][ExtractionOver => definitions' = definitions]_vars

\* the resolver pass has looked references up in an index the extraction
\* filled from two files
C13_Witness ==
  /\ pc = "done"
  /\ lookups > 1
  /\ Len(defLog) > 0
  /\ Cardinality(Extracted) = 2

\* C14: the Neo4jGraph is a read-only view: a call of addNode or addEdge
\* raises an error, and whatever calls were made and whatever the caller did
\* to the arrays the getters returned, numberOfNodes(), numberOfEdges(),
\* getNodes() and getEdges() give what they gave at construction.
C14_ViewReadOnly ==
  pc = "view" =>
    /\ thrown.call \in {"addNode", "addEdge"} => thrown.error # "none"
    /\ numberOfNodes(heap) = Len(graph.nodes)
    /\ numberOfEdges(heap) = Len(graph.edges)
    /\ LET r == getNodes(heap, "probe")
       IN r.heap[r.ret] = [i \in 1..Len(graph.nodes) |-> graph.nodes[i].value]
    /\ LET r == getEdges(heap, "probe")
       IN r.heap[r.ret] = graph.edges

\* the caller has pushed onto an array that getEdges returned for a graph
\* with edges, and addEdge has been called since
C14_Witness ==
  /\ pc = "view"
  /\ thrown.call = "addEdge"
  /\ \E a \in held :
       /\ Len(heap[a]) > 1
       /\ heap[a][1] \in {graph.edges[i] : i \in EdgeIndices}
       /\ heap[a][Len(heap[a])] = Pushed

\* the class declarations that are open in the source text once the first n
\* nodes of a file have been visited, innermost last
RECURSIVE OpenClasses(_, _)
OpenClasses(events, n) ==
  IF n = 0 THEN <<>>
  ELSE LET before == OpenClasses(events, n - 1)
       IN CASE events[n].k = "ClassDeclaration" -> Append(before, events[n])
            [] events[n].k = "exit:ClassDeclaration" ->
                 SubSeq(before, 1, Len(before) - 1)
            [] OTHER -> before

MethodKinds == {"ClassMethod", "ClassPrivateMethod"}

MethodTypes == {"method", "staticMethod", "privateMethod"}

\* the positions in a file of the method nodes a definition tag may come from
MethodEventsOf(tag) ==
  LET ev == Content(tree[tag.filePath]).events
  IN {n \in 1..Len(ev) : /\ ev[n].k \in MethodKinds
                          /\ ev[n].line = tag.startLine
                          /\ OpenClasses(ev, n - 1) # <<>>}

\* the class declaration whose body holds the n-th node of the file
EnclosingClass(tag, n) ==
  LET open == OpenClasses(Content(tree[tag.filePath]).events, n - 1)
  IN open[Len(open)]

\* C15: leaving a class declaration nested in another class's body makes the
\* outer class the current class again: every method, static method and
\* private method tag has the class whose body holds the method as
\* parent.name, and a static method is named '<that class>.<method>', also
\* for the methods that come after a nested class.
C15_ScopeRestoredOnExit ==
  \A i \in 1..Len(defLog) :
    defLog[i].type \in MethodTypes =>
      \A n \in MethodEventsOf(defLog[i]) :
        LET ev == Content(tree[defLog[i].filePath]).events
            cls == EnclosingClass(defLog[i], n).name
        IN /\ defLog[i].parent.name = cls
           /\ ev[n].static => defLog[i].name = cls \o "." \o ev[n].name

\* C16: every definition tag of a method, static method or private method
\* carries a parent whose type is 'class', whose name is the enclosing
\* class's name and whose start line is the line of the class declaration,
\* not the method's own.
C16_ParentIsClassLocation ==
  \A i \in 1..Len(defLog) :
    defLog[i].type \in MethodTypes =>
      \A n \in MethodEventsOf(defLog[i]) :
        LET cls == EnclosingClass(defLog[i], n)
        IN /\ defLog[i].parent.type = "class"
           /\ defLog[i].parent.name = cls.name
           /\ defLog[i].parent.startLine = cls.line

\* a component of the path is one of the scanner's ignore-names
UnderIgnoredName(p) == \E i \in 1..Len(p) : p[i] \in DEFAULT_IGNORE_PATTERNS

\* C17: nothing under a configured ignore-name enters the pipeline: no node
\* of the graph (folder, file, definition) has a repo-relative path with a
\* component equal to an ignore-name, and parseFile is never called on a file
\* with such a path.
C17_IgnoredNeverEnters ==
  /\ \A i \in NodeIndices : ~UnderIgnoredName(graph.nodes[i].value.filePath)
  /\ \A r \in parsed : ~UnderIgnoredName(r.file)

\* the names a file exports
ExportsOf(f) ==
  {e.name : e \in {x \in EventsOf(f) : x.k = "ExportNamedDeclaration"}}

\* C18: when src/b.ts imports a name from '../a' and a.ts, extracted before
\* it in the same run, exports that name, the import resolver maps the local
\* name to 'sourceFile#exportedName', and the call of the local name in
\* src/b.ts yields a reference tag whose targetFile is the source file.
C18_ImportAliasLinked ==
  \A e \in (IF B_TS \in Extracted THEN EventsOf(B_TS) ELSE {}) :
    (/\ e.k = "ImportDeclaration"
     /\ e.source = "../a"
     /\ A_TS \in Extracted
     /\ e.imported \in ExportsOf(A_TS))
    => /\ e.name \in DOMAIN IMPORT_RESOLVER
       /\ \E j \in 1..Len(references) :
            /\ references[j].filePath = B_TS
            /\ references[j].name = e.name
            /\ references[j].targetFile = <<e.source>>

\* the positions in the processing order of the definitions stored under a key
DefinedAt(key) == {i \in 1..Len(defLog) : DefKey(defLog[i]) = key}

\* the node id a definition tag was inserted under
defNodeIdOf(tag) ==
  generateNodeId(RepoId,
                 DefInsertPath(AbsPath(tag.filePath), tag.name, tag.startLine))

\* C19: from the start of the resolver pass on, the definitions index maps
\* every '<name>:<type>' key to the tag of the definition processed last
\* under that key, and the definition node and the file-to-definition
\* CONTAINS edge of every processed definition, the earlier ones included,
\* are in the graph.
C19_LastDefinitionWins ==
  pc \in {"resolve", "store", "done"} =>
    /\ \A key \in DOMAIN definitions :
         /\ DefinedAt(key) # {}
         /\ \A i \in DefinedAt(key) :
              (\A j \in DefinedAt(key) : j <= i) => definitions[key] = defLog[i]
    /\ \A i \in 1..Len(defLog) :
         /\ DefKey(defLog[i]) \in DOMAIN definitions
         /\ MapHas(graph.nodes, defNodeIdOf(defLog[i]))
         /\ HasEdge(fileNodeIdOf(defLog[i].filePath), defNodeIdOf(defLog[i]),
                    "CONTAINS")

\* the resolver pass starts after two files that define the same
\* '<name>:<type>' key were processed
C19_Witness ==
  /\ pc = "resolve"
  /\ refIdx = 1
  /\ \E i \in 1..Len(defLog), j \in 1..Len(defLog) :
       /\ i < j
       /\ DefKey(defLog[i]) = DefKey(defLog[j])
       /\ defLog[i].filePath # defLog[j].filePath

\* C20: no step of a run changes or removes the data stored under a node id
\* that is already in the node store, also when a later definition tag of
\* the same file has the same name and start line and when ensureFolderNode
\* or processDirectory meets a folder or file that exists.
\* Within the loop over the tags of one file: the data under the id of a
\* definition is the data of the first definition inserted under that id.
C20_NodesNeverMutated ==
  /\ [][\A i \in 1..Len(graph.nodes) :
          /\ MapHas(graph'.nodes, graph.nodes[i].key)
          /\ MapGet(graph'.nodes, graph.nodes[i].key) = graph.nodes[i].value]_vars
  /\ [](\A i \in 1..Len(defLog) :
          (\A j \in 1..Len(defLog) :
             defNodeIdOf(defLog[j]) = defNodeIdOf(defLog[i]) => i <= j)
          => /\ MapHas(graph.nodes, defNodeIdOf(defLog[i]))
             /\ MapGet(graph.nodes, defNodeIdOf(defLog[i]))
                  = DefinitionNode(defNodeIdOf(defLog[i]), defLog[i],
                                   defLog[i].filePath))

\* the resolver is about to handle a reference whose key is not in the
\* definitions index
AtUnresolvedReference ==
  /\ pc = "resolve"
  /\ refIdx <= Len(references)
  /\ <<references[refIdx].name, references[refIdx].type>>
       \notin DOMAIN definitions

\* C21: for a buffered reference whose '<name>:<type>' key is not in the
\* definitions index, the resolver step adds no node and no edge, adds one to
\* the unresolved-definition counter, leaves the other counters alone and
\* goes on to the next reference; a single file that defines foo and calls
\* console.log and the undefined bar() ends with 1 unresolved reference and
\* no reference node.
C21_UnresolvedOnlyCounted ==
  /\ [][AtUnresolvedReference =>
          /\ graph' = graph
          /\ counters' = [counters EXCEPT !.missingDefinitions = @ + 1]
          /\ refIdx' = refIdx + 1
          /\ pc' = "resolve"]_vars
  /\ []((pc = "done" /\ DOMAIN tree = {A_TS} /\ tree[A_TS] = "scenario1") =>
          /\ counters = [resolvedCount |-> 0, missingDefinitions |-> 1,
                         missingNodes |-> 0]
          /\ \A i \in NodeIndices : ~graph.nodes[i].value.isReference)

\* the run on the single file with foo, console.log and bar() has returned
C21_Witness ==
  /\ pc = "done"
  /\ DOMAIN tree = {A_TS}
  /\ tree[A_TS] = "scenario1"
  /\ Len(references) = 1
  /\ counters.missingDefinitions = 1

\* buildGraph has constructed the view it hands to storeGraph and returns
ViewObservable ==
  \/ pc \in {"store", "done"}
  \/ pc = "rejected" /\ error = "StoreError"

resolverDefNodeId(d) ==
  generateNodeId(RepoId, DefLookupPath(d.filePath, d.name, d.startLine))

\* C23: from the start of the resolver pass on, the id the resolver
\* computes for every definition tag of the definitions index is a key of
\* the node store, namely the id the definition's node was inserted under.
C23_ResolverIdIsInsertionId ==
  pc \in {"resolve", "store", "done"} =>
    \A k \in DOMAIN definitions :
      /\ MapHas(graph.nodes, resolverDefNodeId(definitions[k]))
      /\ resolverDefNodeId(definitions[k]) = defNodeIdOf(definitions[k])

\* the '<name>:<type>' keys the definitions of file f are stored under
DefKeysOf(f) ==
  LET tags == DefTags(parseFile(f, Content(tree[f]), IMPORT_RESOLVER,
                                FILE_REFERENCES).tags)
  IN {DefKey(tags[i]) : i \in 1..Len(tags)}

\* every '<name>:<type>' key is defined in at most one file
KeysInOneFile ==
  \A f \in DOMAIN tree, g \in DOMAIN tree :
    f # g => DefKeysOf(f) \cap DefKeysOf(g) = {}

\* C24: when every '<name>:<type>' key is defined in at most one file, a
\* call of buildGraph that meets the same files in another order (directory
\* listings and file list permuted) returns the same set of node ids, the
\* same set of edges, REFERENCES edges included, and the same resolved,
\* unresolved and missing-node counts as the call before it.
C24_OrderIndependent ==
  (run = 2 /\ pc = "done" /\ KeysInOneFile) =>
    /\ RunResult.nodeIds = firstRun.nodeIds
    /\ RunResult.edges = firstRun.edges
    /\ RunResult.counters = firstRun.counters

\* the entries the directory traversal hands to processFile: source files
\* below no hidden directory and no node_modules
TraversalEligible(f) ==
  /\ IsFile(tree, f)
  /\ ExtName(Basename(f)) \in SourceExtensions
  /\ \A i \in 1..(Len(f) - 1) : ~StartsWithDot(f[i]) /\ f[i] # "node_modules"

\* C25: a stat failure on one directory entry skips only that entry: once
\* the extraction is over, every other eligible entry of the repository, in
\* the same directory or another, has its File node in the graph, and
\* buildGraph was not rejected by the failure.
C25_StatFailureSkipsOnlyEntry ==
  /\ error \notin {"FileAccessError", "StatError"}
  /\ pc \in {"resolve", "store", "done"} =>
       \A f \in DOMAIN tree :
         TraversalEligible(f) => MapHas(graph.nodes, fileNodeIdOf(f))

\* the paths the scan has to yield: the accepted regular files with no
\* ignored name on their path and no unreadable directory above them
ScanExpected ==
  {f \in DOMAIN tree :
     /\ IsFile(tree, f)
     /\ isLikelyTextFile(tree, f)
     /\ \A i \in 1..Len(f) : f[i] \notin DEFAULT_IGNORE_PATTERNS
     /\ \A n \in 0..(Len(f) - 1) : SubSeq(f, 1, n) \notin DOMAIN denied}

PositionOf(name) == CHOOSE i \in 1..Len(EntryOrder) : EntryOrder[i] = name

\* C26: scanDirectory never raises to its consumer and always finishes; a
\* directory whose readdir fails contributes no path while the scan of its
\* parent goes on with the remaining entries, so that the scan yields, once
\* each, exactly the regular files the filter accepts that have no ignored
\* name on their path and no unreadable directory above them.
C26_ScanNeverRaises ==
  /\ [](pc # "raised" /\ error = "none")
  /\ [](\A i \in 1..Len(files) :
          /\ files[i] \in ScanExpected
          /\ \A j \in 1..Len(files) : i # j => files[i] # files[j])
  /\ [](pc = "scanned" => {files[i] : i \in 1..Len(files)} = ScanExpected)
  /\ <>(pc = "scanned")

\* the scan has finished: readdir failed on a directory that holds a file,
\* and a path listed after that directory in its parent was yielded
C26_Witness ==
  /\ pc = "scanned"
  /\ \E d \in DOMAIN denied, f \in DOMAIN tree, i \in 1..Len(files) :
       /\ d # Dot
       /\ denied[d] = "EIO"
       /\ IsPrefix(d, f)
       /\ Dirname(files[i]) = Dirname(d)
       /\ Len(files[i]) = Len(d)
       /\ PositionOf(Basename(files[i])) > PositionOf(Basename(d))

ReferencesEdges == {i \in EdgeIndices : graph.edges[i].type = "REFERENCES"}

CounterSum(c) == c.resolvedCount + c.missingDefinitions + c.missingNodes

\* C27: at the end of the resolver pass resolvedCount is the number of
\* REFERENCES edges of the graph and the three counters together do not
\* exceed the number of buffered references; every step of the resolver
\* loop leaves the counters alone or adds one to exactly one of them.
C27_CountersAccount ==
  /\ [](pc \in {"store", "done"} =>
          /\ counters.resolvedCount = Cardinality(ReferencesEdges)
          /\ CounterSum(counters) <= Len(references))
  /\ [][(pc = "resolve" /\ refIdx <= Len(references)) =>
          /\ CounterSum(counters') \in {CounterSum(counters),
                                         CounterSum(counters) + 1}
          /\ counters'.resolvedCount >= counters.resolvedCount
          /\ counters'.missingDefinitions >= counters.missingDefinitions
          /\ counters'.missingNodes >= counters.missingNodes]_vars

\* the resolver pass is over after two buffered references, each counted once
C27_Witness ==
  /\ pc = "done"
  /\ Len(references) >= 2
  /\ CounterSum(counters) = Len(references)

GuardedOps == {"ensureIndex", "deleteRepoData", "storeGraph", "query", "getNodeById"}

\* C28: every operation other than connect and close that is called while
\* no connect has succeeded since the construction or the last close fails
\* with the 'Not connected' error and opens no session; close leaves the
\* driver unset, and a close on a closed service changes nothing.
C28_NotConnectedGuard ==
  [][(pc = "service" /\ input'.calls = input.calls + 1) =>
       /\ (reply'.op \in GuardedOps /\ ~svc.established) =>
            /\ reply'.outcome = "NotConnected"
            /\ svc'.sessions = svc.sessions
       /\ reply'.op = "close" =>
            /\ svc'.driver = "null"
            /\ ~svc'.established
            /\ svc.driver = "null" => svc' = svc]_vars

\* the session.run calls that carried node i, edge e
NodeRunsWith(i) ==
  {k \in 1..Len(sent) :
     sent[k].kind = "nodes" /\ sent[k].from <= i /\ i <= sent[k].to}

EdgeRunsWith(e) ==
  {k \in 1..Len(sent) :
     /\ sent[k].kind = "edges"
     /\ sent[k].from <= e /\ e <= sent[k].to
     /\ sent[k].type = EdgeTypeOf(input.pattern, e)}

\* C30: once storeGraph has settled: no node batch was sent after an edge
\* batch, and an edge batch was sent only after every node had been sent
\* successfully; no node and no edge was sent twice, every batch has at most
\* 1000 items, and after a successful call every node and every edge was
\* sent exactly once; a batch that failed is the last one sent and the call
\* settled with its error.
C30_NodesBeforeEdges ==
  pc = "stored" =>
    /\ \A k \in 1..Len(sent), l \in 1..Len(sent) :
         (k < l /\ sent[k].kind = "edges") => sent[l].kind = "edges"
    /\ (\E k \in 1..Len(sent) : sent[k].kind = "edges") =>
         \A i \in 1..input.nodes : \E k \in NodeRunsWith(i) : sent[k].ok
    /\ \A i \in 1..input.nodes : Cardinality(NodeRunsWith(i)) <= 1
    /\ \A e \in 1..input.edges : Cardinality(EdgeRunsWith(e)) <= 1
    /\ \A k \in 1..Len(sent) :
         /\ sent[k].from <= sent[k].to
         /\ sent[k].to - sent[k].from + 1 <= batchSize
         /\ ~sent[k].ok => k = Len(sent) /\ reply.outcome = "StoreError"
    /\ reply.outcome = "StoreError" => sent # <<>> /\ ~sent[Len(sent)].ok
    /\ reply.outcome = "ok" =>
         /\ \A i \in 1..input.nodes : Cardinality(NodeRunsWith(i)) = 1
         /\ \A e \in 1..input.edges : Cardinality(EdgeRunsWith(e)) = 1

\* storeGraph has settled after more than one batch of nodes and of edges
\* of two types, the second batch of edges failing
C30_Witness ==
  /\ pc = "stored"
  /\ input.nodes > batchSize
  /\ input.edges > batchSize
  /\ input.pattern = "mixed"
  /\ reply.outcome = "StoreError"
  /\ \E k \in 1..Len(sent) : sent[k].kind = "edges" /\ sent[k].from > 1

\* C29: createRepoMap always releases the connection it opened: it never
\* comes to a halt holding a service it created and connected (in the state
\* pc = "pending" it awaits a promise that nothing will settle, and no step
\* is possible any more); when it settles, a service it created is closed,
\* a service the caller supplied was never closed by it, and it rejects
\* with the error that was caught, if any.
C29_ConnectionReleased ==
  /\ pc = "settled" =>
       /\ input.own => (svc.driver = "null" /\ reply.closeCalls > 0)
       /\ ~input.own => (svc.driver = "set" /\ reply.closeCalls = 0)
       /\ reply.outcome = IF reply.caught = "none" THEN "ok" ELSE reply.caught
  /\ (input.kind = "createRepoMap" /\ ~input.own) => reply.closeCalls = 0
  /\ pc = "pending" => ~(input.own /\ svc.driver = "set")

====
